---- MODULE Spec2Model ----
(***************************************************************************)
(* Model of the connection/backoff orchestrator and of the comment         *)
(* deduplication of EnhancedTikTokScraper (src/tiktok_scraper.py).         *)
(*                                                                         *)
(* Time is the wall clock time.time() in whole seconds.  Coroutines are    *)
(* scheduled as asyncio schedules them: one task runs at a time, from one  *)
(* suspension point (an await that really waits) to the next; `current`    *)
(* names the task that is running, NoTask when the event loop is idle.     *)
(* Text is a sequence of Unicode code points.                              *)
(***************************************************************************)
EXTENDS Integers, Sequences, FiniteSets, TLC

(* ------------------------------ bounds -------------------------------- *)
\* the clock stops advancing beyond MaxTime when several streamers are monitored,
\* and beyond MaxTimeSolo when a single one is
MaxTime == 7
MaxTimeSolo == 60
\* number of connect/disconnect signals the external clients deliver
MaxSignals == 1
\* a run that follows the sessions of one target delivers at most MaxSessionSignals
MaxSessionSignals == 3
\* number of client.start() calls explored
MaxStarts == 2
\* the longest run of failures a loop starts a retry from
MaxFailures == 8
\* number of client.start() calls explored after a history of failures
MaxRetryStarts == 1
\* number of comment events delivered in the deduplication specification
MaxEvents == 4
\* number of comment events around the writing and the loading of the history file
MaxSnapshotEvents == 3
MaxReportEvents == 2
\* a run that starts from a full ledger handles at most MaxFullEvents comments
MaxFullEvents == 2
\* the clock of the deduplication specification stops at MaxDedupTime
MaxDedupTime == 31
\* a stream of identical comment events is followed for MaxStreamEvents events and
\* up to MaxStreamTime seconds
MaxStreamEvents == 5
MaxStreamTime == 61

Streamers == {"a", "b", "c"}
NoTask == "none"

\* time.time() when the program starts, in seconds: the epoch is long past, so every
\* deadline and timestamp that starts at 0 lies in the past
Epoch == 100

(* ---------------------- RateLimitConfig (defaults) -------------------- *)
base_delay == 15
max_delay == 1800
rate_limit_cooldown == 3600
global_rate_limit_duration == 1800
per_streamer_rate_limit == 3600
max_concurrent_connections == 2
min_connection_interval == 5
pre_connection_delay == <<2, 5>>
connection_timeout == 45
backoff_multiplier == 2
\* jitter_range = (0.8, 1.2), in tenths
jitter_range == <<8, 12>>

\* the cap of one cooldown sleep, the poll interval of a connected session
cooldown_sleep_cap == 300
poll_interval == 10
\* the sleep of status_reporter
report_interval == 60
\* the sleep after an error in an iteration of monitor_streamer
error_delay == 60

VARIABLES
    streamers,                \* the usernames load_streamers() returned
    running,                  \* self.running
    now,                      \* time.time()
    current,                  \* the task the event loop is running
    pc,                       \* where each monitor_streamer task stands
    wake,                     \* deadline of the task's pending sleep / timeout
    consecutive_failures,     \* locals of monitor_streamer, per task
    consecutive_rate_limits,
    last_success_time,
    current_time,
    connection_semaphore,     \* asyncio.Semaphore: [value, waiters]
    global_rate_limit_until,
    streamer_rate_limits,     \* dict: username -> deadline
    last_connection_time,
    active_clients,           \* keys of self.active_clients
    active_sessions,
    live,                     \* clients started and not yet disconnected
    signals,                  \* signals delivered so far
    starts,                   \* calls of client.start() so far
    stats,                    \* ScrapingStats counters
    recent_comments,          \* dict: username -> ordered dict hash -> timestamp
    session_files,            \* keys of self.session_files
    sink,                     \* lines of each session file
    forwarded,                \* history: the comment events written to the sink
    last_event,               \* history: the comment event handled last
    events,                   \* number of comment events handled so far
    pool,                     \* the comment events the clients may deliver
    reporter,                 \* the status_reporter task: [pc, wake]
    comment_history_file,     \* comment_history.json: [exists, text]
    restarted,                \* a later instance that loaded the file: [up, recent_comments]
    teardown                  \* run() and its _cleanup: [pc, todo, log]

schedVars == <<current, pc, wake>>
counterVars == <<consecutive_failures, consecutive_rate_limits, last_success_time>>
rateVars == <<global_rate_limit_until, streamer_rate_limits>>
clientVars == <<active_clients, live>>
envVars == <<signals, starts>>
\* what no monitor task and no handler of a client writes
runVars == <<streamers, reporter, comment_history_file, restarted, teardown>>
orchVars == <<runVars, running, schedVars, counterVars, current_time,
              connection_semaphore, rateVars, last_connection_time, clientVars,
              active_sessions, envVars>>
dedupVars == <<recent_comments, forwarded, last_event, events, pool>>
sinkVars == <<session_files, sink>>
vars == <<now, stats, orchVars, dedupVars, sinkVars>>

(* ------------------------------ helpers ------------------------------- *)
Min(a, b) == IF a < b THEN a ELSE b
Max(a, b) == IF a > b THEN a ELSE b
SetMin(S) == CHOOSE x \in S : \A y \in S : x <= y

RECURSIVE Pow(_, _)
Pow(b, n) == IF n = 0 THEN 1 ELSE b * Pow(b, n - 1)

\* dict assignment d[k] = v
DictSet(d, k, v) == [x \in DOMAIN d \cup {k} |-> IF x = k THEN v ELSE d[x]]

\* json.dump of a dict username -> dict hash -> timestamp: the members of the
\* object, each with the members of its own object in their order
RECURSIVE JsonDump(_)
JsonDump(history) ==
    IF DOMAIN history = {} THEN <<>>
    ELSE LET u == CHOOSE v \in DOMAIN history : TRUE
         IN  <<[name |-> u, members |-> history[u]]>>
                 \o JsonDump([v \in DOMAIN history \ {u} |-> history[v]])

\* json.load of one object hash -> timestamp: a dict in the order of the members,
\* in which a later member replaces an earlier one of the same name
RECURSIVE JsonLoadObject(_)
JsonLoadObject(members) ==
    IF members = <<>> THEN <<>>
    ELSE LET n == Len(members)
             before == JsonLoadObject(SubSeq(members, 1, n - 1))
         IN  IF \E i \in DOMAIN before : before[i].hash = members[n].hash
             THEN [i \in DOMAIN before |->
                      IF before[i].hash = members[n].hash THEN members[n]
                      ELSE before[i]]
             ELSE Append(before, members[n])

\* json.load of the file
RECURSIVE JsonLoad(_)
JsonLoad(text) ==
    IF text = <<>> THEN <<>>
    ELSE LET n == Len(text)
         IN  DictSet(JsonLoad(SubSeq(text, 1, n - 1)), text[n].name,
                     JsonLoadObject(text[n].members))

\* the file an instance finds when an earlier run left `history` in it; an earlier
\* run that left nothing wrote no file
HistoryFile(history) ==
    [exists |-> DOMAIN history # {}, text |-> JsonDump(history)]

\* lines 223-232: _load_comment_history
LoadCommentHistory(file) == IF file.exists THEN JsonLoad(file.text) ELSE <<>>

\* lines 236-251: the history without the entries of 24 hours ago and before and
\* without the targets that have no entry left, written to the file
history_retention == 24 * 3600
CleanedHistory(history, at) ==
    LET cleaned(u) == SelectSeq(history[u], LAMBDA e : e.ts > at - history_retention)
        kept == {u \in DOMAIN history : cleaned(u) # <<>>}
    IN  [u \in kept |-> cleaned(u)]
\* a cleaning that keeps 24 seconds
SaveCommentHistoryOfSeconds(history, at) ==
    LET cleaned(u) == SelectSeq(history[u], LAMBDA e : e.ts > at - 24)
        kept == {u \in DOMAIN history : cleaned(u) # <<>>}
    IN  [exists |-> TRUE, text |-> JsonDump([u \in kept |-> cleaned(u)])]

SaveCommentHistory(history, at) ==
    [exists |-> TRUE, text |-> JsonDump(CleanedHistory(history, at))]

NoEvent == [username |-> "", commenter |-> <<>>, comment |-> <<>>, at |-> 0]

(* ------------------------- asyncio.Semaphore -------------------------- *)
\* Semaphore.locked(): no permit left, or somebody is already queued
Locked(sem) == sem.value = 0 \/ sem.waiters # <<>>

\* Semaphore._wake_up_next(): hand a permit to the first waiter not yet woken
WakeUpNext(sem) ==
    LET idx == {i \in DOMAIN sem.waiters : ~sem.waiters[i].done}
    IN  IF idx = {} THEN sem
        ELSE LET i == SetMin(idx)
             IN  [value |-> sem.value - 1,
                  waiters |-> [sem.waiters EXCEPT ![i].done = TRUE]]

HasPendingWaiter(sem) == \E i \in DOMAIN sem.waiters : ~sem.waiters[i].done

\* the loop at the end of Semaphore.acquire(): while value > 0, wake the next
RECURSIVE WakeWhile(_)
WakeWhile(sem) ==
    IF sem.value > 0 /\ HasPendingWaiter(sem) THEN WakeWhile(WakeUpNext(sem)) ELSE sem

\* a release() that wakes no waiter
SemReleaseNoWake(sem) == [sem EXCEPT !.value = @ + 1]

\* Semaphore.release()
SemRelease(sem) == WakeUpNext([sem EXCEPT !.value = @ + 1])

\* a woken waiter leaves the queue when its task resumes
RemoveWaiter(sem, t) ==
    [sem EXCEPT !.waiters = SelectSeq(@, LAMBDA w : w.t # t)]

Woken(sem, t) == \E i \in DOMAIN sem.waiters : sem.waiters[i].t = t /\ sem.waiters[i].done

(* ------------------------ rate limit queries -------------------------- *)
\* line 460: current_time < self.global_rate_limit_until
IsGloballyLimited(at) == at < global_rate_limit_until

\* line 466: username in self.streamer_rate_limits and current_time < ...[username]
IsStreamerLimited(username, at) ==
    username \in DOMAIN streamer_rate_limits /\ at < streamer_rate_limits[username]

(* ---------------------------- error text ------------------------------ *)
\* str.lower() on the code points the model uses
LowerChar(c) == IF c >= 65 /\ c <= 90 THEN c + 32
                ELSE IF c = 201 THEN 233
                ELSE c
Lower(s) == [i \in DOMAIN s |-> LowerChar(s[i])]

\* Python's `sub in s`
Contains(s, sub) ==
    \E i \in 0..(Len(s) - Len(sub)) : \A j \in 1..Len(sub) : s[i + j] = sub[j]

rate_limit_indicators ==
    << <<114, 97, 116, 101, 95, 108, 105, 109, 105, 116>>,
       <<114, 97, 116, 101, 32, 108, 105, 109, 105, 116>>,
       <<116, 111, 111, 32, 109, 97, 110, 121, 32, 114, 101, 113, 117, 101, 115, 116, 115>>,
       <<52, 50, 57>>,
       <<115, 105, 103, 110, 32, 115, 101, 114, 118, 101, 114>>,
       <<114, 97, 116, 101, 95, 108, 105, 109, 105, 116, 95, 105, 112, 95, 100, 97, 121>>,
       <<101, 117, 108, 101, 114>>,
       <<98, 108, 111, 99, 107, 101, 100>> >>

\* line 511
IsRateLimitError(error_msg) ==
    \E k \in DOMAIN rate_limit_indicators :
        Contains(Lower(error_msg), rate_limit_indicators[k])

\* str(e) of the exceptions client.start() raises in the model:
\* "HTTP 429", "IP Blocked", "UserOfflineError"
ErrorMessages ==
    { <<72, 84, 84, 80, 32, 52, 50, 57>>,
      <<73, 80, 32, 66, 108, 111, 99, 107, 101, 100>>,
      <<85, 115, 101, 114, 79, 102, 102, 108, 105, 110, 101, 69, 114, 114, 111, 114>> }
\* a timeout whose text is "timeout 429"
TimeoutMessageWithIndicator == <<116, 105, 109, 101, 111, 117, 116, 32, 52, 50, 57>>
\* str(asyncio.TimeoutError()) is the empty string
TimeoutMessage == <<>>

(* ------------------------------ the sink ------------------------------ *)
\* "Connected to live stream", "Disconnected from live stream"
ConnectedNotice ==
    <<67, 111, 110, 110, 101, 99, 116, 101, 100, 32, 116, 111, 32, 108, 105, 118, 101,
      32, 115, 116, 114, 101, 97, 109>>
DisconnectedNotice ==
    <<68, 105, 115, 99, 111, 110, 110, 101, 99, 116, 101, 100, 32, 102, 114, 111, 109,
      32, 108, 105, 118, 101, 32, 115, 116, 114, 101, 97, 109>>

IsSpace(c) == c \in {9, 10, 11, 12, 13, 28, 29, 30, 31, 32, 133, 160, 12288}

\* str.strip()
RECURSIVE LStrip(_)
LStrip(s) == IF s # <<>> /\ IsSpace(Head(s)) THEN LStrip(Tail(s)) ELSE s
RECURSIVE RStrip(_)
RStrip(s) == IF s # <<>> /\ IsSpace(s[Len(s)]) THEN RStrip(SubSeq(s, 1, Len(s) - 1)) ELSE s
Strip(s) == RStrip(LStrip(s))

\* line 342: str(content).replace('\n', ' ').replace('\r', ' ').strip()
CleanContent(content) ==
    Strip([i \in DOMAIN content |-> IF content[i] \in {10, 13} THEN 32 ELSE content[i]])

\* lines 332-339: the session file is created, with its header, on first use
WithSessionFile(username) ==
    IF username \in session_files THEN sink[username]
    ELSE <<[kind |-> "header", content |-> <<>>]>>

\* save_event(username, "system", ...), lines 331-342 and 364-369
SaveSystemEvent(username, content) ==
    /\ session_files' = session_files \cup {username}
    /\ sink' = [sink EXCEPT ![username] =
                  Append(WithSessionFile(username),
                         [kind |-> "system", content |-> CleanContent(content)])]

(* ------------------------------- Init --------------------------------- *)
\* the lists of streamers the model is run with
StreamerLists == {{"a"}, Streamers}

\* the state __init__ leaves (lines 101-119), before run() creates the tasks;
\* history is what _load_comment_history (line 110) found on disk
Constructed(history) ==
    /\ running = TRUE
    /\ now = Epoch
    /\ current = NoTask
    /\ pc = [t \in Streamers |-> "init"]
    /\ wake = [t \in Streamers |-> 0]
    /\ consecutive_failures = [t \in Streamers |-> 0]
    /\ consecutive_rate_limits = [t \in Streamers |-> 0]
    /\ last_success_time = [t \in Streamers |-> 0]
    /\ current_time = [t \in Streamers |-> 0]
    /\ connection_semaphore = [value |-> max_concurrent_connections, waiters |-> <<>>]
    /\ global_rate_limit_until = 0
    /\ streamer_rate_limits = <<>>
    /\ last_connection_time = 0
    /\ active_clients = {}
    /\ active_sessions = {}
    /\ live = {}
    /\ signals = 0
    /\ starts = 0
    /\ stats = [connection_attempts |-> 0, failed_connections |-> 0,
                rate_limit_hits |-> 0, active_connections |-> 0,
                comments_captured |-> 0, duplicates_filtered |-> 0,
                last_update |-> 0]
    /\ recent_comments = history
    /\ session_files = {}
    /\ sink = [u \in Streamers |-> <<>>]
    /\ forwarded = {}
    /\ last_event = NoEvent
    /\ events = 0
    /\ reporter = [pc |-> "init", wake |-> 0]
    /\ comment_history_file = HistoryFile(history)
    /\ restarted = [up |-> FALSE, recent_comments |-> <<>>]
    /\ teardown = [pc |-> "gathering", todo |-> {}, log |-> <<>>]

\* no history file: line 232
Boot == Constructed(<<>>)

Init ==
    /\ Boot
    /\ streamers \in StreamerLists
    /\ pool = {}

(* ----------------------- monitor_streamer, per task ------------------- *)
SleepPcs == {"backoff", "cooldown", "interval", "predelay", "connected", "error_sleep"}
\* the task is inside `async with self.connection_semaphore`: it holds a permit
GatePcs == {"gate", "interval", "predelay", "starting"}

Idle == current = NoTask
Suspend == current' = NoTask
Due(t) == Idle /\ wake[t] <= now

\* asyncio.sleep(d): the task waits at `where` until now + d
Sleep(t, where, d) ==
    /\ pc' = [pc EXCEPT ![t] = where]
    /\ wake' = [wake EXCEPT ![t] = now + d]
    /\ Suspend

\* the task runs on, at `where`; a timer that fired is gone
Goto(t, where) ==
    /\ pc' = [pc EXCEPT ![t] = where]
    /\ wake' = [wake EXCEPT ![t] = 0]
    /\ current' = t

\* a delay that is not capped
BackoffDelayUncapped(failures) == base_delay * Pow(backoff_multiplier, failures)

\* lines 599-604: min(base_delay * multiplier ** failures, max_delay) * jitter
BackoffDelay(failures) == Min(base_delay * Pow(backoff_multiplier, failures), max_delay)
ActualDelay(failures, jitter) == (BackoffDelay(failures) * jitter) \div 10
\* random.uniform(*jitter_range), sampled at its ends
JitterSamples == {jitter_range[1], jitter_range[2]}

\* lines 724-726: run() creates the tasks in the order of the list, and the event
\* loop starts them in the order of their creation
CreationOrder == <<"a", "b", "c">>
CreatedBefore(t) ==
    {u \in streamers : \E i, j \in DOMAIN CreationOrder :
                          CreationOrder[i] = u /\ CreationOrder[j] = t /\ i < j}

\* lines 587-591: the task starts
MonitorStart(t) ==
    /\ Idle /\ pc[t] = "init"
    /\ \A u \in CreatedBefore(t) : pc[u] # "init"
    /\ consecutive_failures' = [consecutive_failures EXCEPT ![t] = 0]
    /\ consecutive_rate_limits' = [consecutive_rate_limits EXCEPT ![t] = 0]
    /\ last_success_time' = [last_success_time EXCEPT ![t] = now]
    /\ Goto(t, "loop")
    /\ UNCHANGED <<runVars, running, now, current_time, connection_semaphore,
                   rateVars, last_connection_time, clientVars, active_sessions,
                   envVars, stats, dedupVars, sinkVars>>

\* lines 593-607: loop condition, then the backoff sleep when failures > 0
LoopTop(t) ==
    /\ current = t /\ pc[t] = "loop"
    /\ IF ~running
       THEN /\ pc' = [pc EXCEPT ![t] = "stopped"]
            /\ Suspend
            /\ UNCHANGED <<wake, current_time>>
       ELSE /\ current_time' = [current_time EXCEPT ![t] = now]
            /\ IF consecutive_failures[t] > 0
               THEN \E jitter \in JitterSamples :
                        Sleep(t, "backoff", ActualDelay(consecutive_failures[t], jitter))
               ELSE Goto(t, "cooldown_check")
    /\ UNCHANGED <<runVars, running, now, counterVars, connection_semaphore,
                   rateVars, last_connection_time, clientVars, active_sessions,
                   envVars, stats, dedupVars, sinkVars>>

\* the backoff sleep of line 607 is over
WakeBackoff(t) ==
    /\ pc[t] = "backoff" /\ Due(t)
    /\ Goto(t, "cooldown_check")
    /\ UNCHANGED <<runVars, running, now, counterVars, current_time,
                   connection_semaphore, rateVars, last_connection_time, clientVars,
                   active_sessions, envVars, stats, dedupVars, sinkVars>>

\* a cooldown that lasts as long as one cooldown sleep
CooldownRemainingOfCap(t) == cooldown_sleep_cap - (current_time[t] - last_success_time[t])

\* line 611, with the current_time read at line 595
CooldownRemaining(t) == rate_limit_cooldown - (current_time[t] - last_success_time[t])

\* lines 609-618: the cooldown sleep, or on to create_streamer_client
CooldownCheck(t) ==
    /\ current = t /\ pc[t] = "cooldown_check"
    /\ IF consecutive_rate_limits[t] >= 3 /\ CooldownRemaining(t) > 0
       THEN Sleep(t, "cooldown", Min(CooldownRemaining(t), cooldown_sleep_cap))
       ELSE Goto(t, "acquire")
    /\ UNCHANGED <<runVars, running, now, counterVars, current_time,
                   connection_semaphore, rateVars, last_connection_time, clientVars,
                   active_sessions, envVars, stats, dedupVars, sinkVars>>

\* a cooldown sleep that is followed by `break`
WakeCooldownBreaks(t) ==
    /\ pc[t] = "cooldown" /\ Due(t)
    /\ pc' = [pc EXCEPT ![t] = "stopped"]
    /\ wake' = [wake EXCEPT ![t] = 0]
    /\ Suspend
    /\ UNCHANGED <<runVars, running, now, counterVars, current_time,
                   connection_semaphore, rateVars, last_connection_time, clientVars,
                   active_sessions, envVars, stats, dedupVars, sinkVars>>

\* line 615: continue after the cooldown sleep
WakeCooldown(t) ==
    /\ pc[t] = "cooldown" /\ Due(t)
    /\ Goto(t, "loop")
    /\ UNCHANGED <<runVars, running, now, counterVars, current_time,
                   connection_semaphore, rateVars, last_connection_time, clientVars,
                   active_sessions, envVars, stats, dedupVars, sinkVars>>

(* ----------------------- create_streamer_client ----------------------- *)
\* a gate that lets every task in and takes no permit
EnterSemaphoreUnguarded(t) ==
    /\ connection_semaphore' = connection_semaphore
    /\ Goto(t, "gate")

\* line 452, `async with self.connection_semaphore`: Semaphore.acquire() takes a
\* permit at once when the semaphore is not locked, and queues the task otherwise
EnterSemaphore(t) ==
    IF ~Locked(connection_semaphore)
    THEN /\ connection_semaphore' = [connection_semaphore EXCEPT !.value = @ - 1]
         /\ Goto(t, "gate")
    ELSE /\ connection_semaphore' =
               [connection_semaphore EXCEPT
                  !.waiters = Append(@, [t |-> t, done |-> FALSE])]
         /\ pc' = [pc EXCEPT ![t] = "queued"]
         /\ Suspend
         /\ UNCHANGED wake

Acquire(t) ==
    /\ current = t /\ pc[t] = "acquire"
    /\ EnterSemaphore(t)
    /\ UNCHANGED <<runVars, running, now, counterVars, current_time, rateVars,
                   last_connection_time, clientVars, active_sessions, envVars, stats,
                   dedupVars, sinkVars>>

\* a queued task was handed a permit by release() and resumes inside acquire()
Granted(t) ==
    /\ Idle /\ pc[t] = "queued" /\ Woken(connection_semaphore, t)
    /\ connection_semaphore' = WakeWhile(RemoveWaiter(connection_semaphore, t))
    /\ Goto(t, "gate")
    /\ UNCHANGED <<runVars, running, now, counterVars, current_time, rateVars,
                   last_connection_time, clientVars, active_sessions, envVars, stats,
                   dedupVars, sinkVars>>

\* the early returns of the rate-limit checks leave the block with the permit
ReturnFromCreateKeepsPermit(t, success, is_rate_limited) ==
    /\ connection_semaphore' =
           IF is_rate_limited /\ pc[t] = "gate" THEN connection_semaphore
           ELSE SemRelease(connection_semaphore)
    /\ IF is_rate_limited
       THEN /\ consecutive_rate_limits' = [consecutive_rate_limits EXCEPT ![t] = @ + 1]
            /\ consecutive_failures' = [consecutive_failures EXCEPT ![t] = @ + 1]
            /\ Goto(t, "loop")
            /\ UNCHANGED last_success_time
       ELSE IF success
       THEN /\ consecutive_failures' = [consecutive_failures EXCEPT ![t] = 0]
            /\ consecutive_rate_limits' = [consecutive_rate_limits EXCEPT ![t] = 0]
            /\ last_success_time' = [last_success_time EXCEPT ![t] = now]
            /\ Goto(t, "poll")
       ELSE /\ consecutive_failures' = [consecutive_failures EXCEPT ![t] = @ + 1]
            /\ Goto(t, "cleanup")
            /\ UNCHANGED <<consecutive_rate_limits, last_success_time>>

\* a success that leaves the counters and the time of the last success as they are
ReturnFromCreateKeepsCounters(t, success, is_rate_limited) ==
    /\ connection_semaphore' = SemRelease(connection_semaphore)
    /\ IF is_rate_limited
       THEN /\ consecutive_rate_limits' = [consecutive_rate_limits EXCEPT ![t] = @ + 1]
            /\ consecutive_failures' = [consecutive_failures EXCEPT ![t] = @ + 1]
            /\ Goto(t, "loop")
            /\ UNCHANGED last_success_time
       ELSE IF success
       THEN /\ Goto(t, "poll")
            /\ UNCHANGED <<consecutive_failures, consecutive_rate_limits,
                           last_success_time>>
       ELSE /\ consecutive_failures' = [consecutive_failures EXCEPT ![t] = @ + 1]
            /\ Goto(t, "cleanup")
            /\ UNCHANGED <<consecutive_rate_limits, last_success_time>>

\* the end of the `async with` block (every return of lines 463-525 passes through
\* it), then lines 618-638 of monitor_streamer: the counters after the attempt
ReturnFromCreate(t, success, is_rate_limited) ==
    /\ connection_semaphore' = SemRelease(connection_semaphore)
    /\ IF is_rate_limited
       THEN /\ consecutive_rate_limits' = [consecutive_rate_limits EXCEPT ![t] = @ + 1]
            /\ consecutive_failures' = [consecutive_failures EXCEPT ![t] = @ + 1]
            /\ Goto(t, "loop")
            /\ UNCHANGED last_success_time
       ELSE IF success
       THEN /\ consecutive_failures' = [consecutive_failures EXCEPT ![t] = 0]
            /\ consecutive_rate_limits' = [consecutive_rate_limits EXCEPT ![t] = 0]
            /\ last_success_time' = [last_success_time EXCEPT ![t] = now]
            /\ Goto(t, "poll")
       ELSE /\ consecutive_failures' = [consecutive_failures EXCEPT ![t] = @ + 1]
            /\ Goto(t, "cleanup")
            /\ UNCHANGED <<consecutive_rate_limits, last_success_time>>

PreDelays == {pre_connection_delay[1], pre_connection_delay[2]}

\* lines 477-479: the pre-connection delay
PreConnectionSleep(t) == \E d \in PreDelays : Sleep(t, "predelay", d)

\* lines 459-469: the rate limit checks of the gate
RateLimitActive(username, at) ==
    IsGloballyLimited(at) \/ IsStreamerLimited(username, at)

\* lines 453-479: count the attempt, check the rate limits, enforce the interval
GateCheck(t) ==
    /\ current = t /\ pc[t] = "gate"
    /\ stats' = [stats EXCEPT !.connection_attempts = @ + 1]
    /\ IF RateLimitActive(t, now)
       THEN ReturnFromCreate(t, FALSE, TRUE)
       ELSE /\ IF now - last_connection_time < min_connection_interval
               THEN Sleep(t, "interval",
                          min_connection_interval - (now - last_connection_time))
               ELSE PreConnectionSleep(t)
            /\ UNCHANGED <<connection_semaphore, consecutive_failures,
                           consecutive_rate_limits, last_success_time>>
    /\ UNCHANGED <<runVars, running, now, current_time, rateVars,
                   last_connection_time, clientVars, active_sessions, envVars,
                   dedupVars, sinkVars>>

\* line 475 is over: on to the pre-connection delay
WakeInterval(t) ==
    /\ pc[t] = "interval" /\ Due(t)
    /\ PreConnectionSleep(t)
    /\ UNCHANGED <<runVars, running, now, counterVars, current_time,
                   connection_semaphore, rateVars, last_connection_time, clientVars,
                   active_sessions, envVars, stats, dedupVars, sinkVars>>

\* lines 481-497: the client is created, registered and started
Connect(t) ==
    /\ pc[t] = "predelay" /\ Due(t)
    /\ starts' = starts + 1
    /\ last_connection_time' = now
    /\ active_clients' = active_clients \cup {t}
    /\ live' = live \cup {t}
    /\ pc' = [pc EXCEPT ![t] = "starting"]
    /\ wake' = [wake EXCEPT ![t] = now + connection_timeout]
    /\ Suspend
    /\ UNCHANGED <<runVars, running, now, counterVars, current_time,
                   connection_semaphore, rateVars, active_sessions, signals, stats,
                   dedupVars, sinkVars>>

\* a run explores MaxStarts calls of client.start()
StartClient(t) ==
    /\ starts < MaxStarts
    /\ Connect(t)

\* lines 494-499: client.start() returned within the timeout
StartReturns(t) ==
    /\ Idle /\ pc[t] = "starting"
    /\ ReturnFromCreate(t, TRUE, FALSE)
    /\ UNCHANGED <<runVars, running, now, current_time, rateVars,
                   last_connection_time, clientVars, active_sessions, envVars, stats,
                   dedupVars, sinkVars>>

\* only the global limit is recorded
RecordRateLimitGlobalOnly(username, at) ==
    /\ global_rate_limit_until' = at + global_rate_limit_duration
    /\ UNCHANGED streamer_rate_limits

\* the limits are counted from the time read at the top of the loop
RecordRateLimitStale(username, at) ==
    /\ global_rate_limit_until' = current_time[username] + global_rate_limit_duration
    /\ streamer_rate_limits' =
           DictSet(streamer_rate_limits, username,
                   current_time[username] + per_streamer_rate_limit)

\* lines 515-519: the rate limits are set from the time of the error
RecordRateLimit(username, at) ==
    /\ global_rate_limit_until' = at + global_rate_limit_duration
    /\ streamer_rate_limits' =
           DictSet(streamer_rate_limits, username, at + per_streamer_rate_limit)

\* a handler that counts a rate-limit error as a hit and not as a failure
HandleExceptionHitOnly(t, error_msg) ==
    /\ IF IsRateLimitError(error_msg)
       THEN /\ stats' = [stats EXCEPT !.rate_limit_hits = @ + 1]
            /\ RecordRateLimit(t, now)
            /\ ReturnFromCreate(t, FALSE, TRUE)
       ELSE /\ stats' = [stats EXCEPT !.failed_connections = @ + 1]
            /\ UNCHANGED <<global_rate_limit_until, streamer_rate_limits>>
            /\ ReturnFromCreate(t, FALSE, FALSE)
    /\ live' = live \ {t}

\* lines 501-525: the exception handler of create_streamer_client
HandleException(t, error_msg) ==
    /\ IF IsRateLimitError(error_msg)
       THEN /\ stats' = [stats EXCEPT !.failed_connections = @ + 1,
                                      !.rate_limit_hits = @ + 1]
            /\ RecordRateLimit(t, now)
            /\ ReturnFromCreate(t, FALSE, TRUE)
       ELSE /\ stats' = [stats EXCEPT !.failed_connections = @ + 1]
            /\ UNCHANGED <<global_rate_limit_until, streamer_rate_limits>>
            /\ ReturnFromCreate(t, FALSE, FALSE)
    /\ live' = live \ {t}

\* client.start() raised
StartRaises(t) ==
    /\ Idle /\ pc[t] = "starting"
    /\ \E error_msg \in ErrorMessages : HandleException(t, error_msg)
    /\ UNCHANGED <<runVars, running, now, current_time, last_connection_time,
                   active_clients, active_sessions, envVars, dedupVars, sinkVars>>

\* asyncio.wait_for gave up after connection_timeout
StartTimeout(t) ==
    /\ pc[t] = "starting" /\ Due(t)
    /\ HandleException(t, TimeoutMessage)
    /\ UNCHANGED <<runVars, running, now, current_time, last_connection_time,
                   active_clients, active_sessions, envVars, dedupVars, sinkVars>>

(* --------------- monitor_streamer, after the attempt ------------------ *)
\* lines 632-633: while username in self.active_sessions and self.running
Poll(t) ==
    /\ current = t /\ pc[t] = "poll"
    /\ IF t \in active_sessions /\ running
       THEN Sleep(t, "connected", poll_interval)
       ELSE Goto(t, "cleanup")
    /\ UNCHANGED <<runVars, running, now, counterVars, current_time,
                   connection_semaphore, rateVars, last_connection_time, clientVars,
                   active_sessions, envVars, stats, dedupVars, sinkVars>>

WakeConnected(t) ==
    /\ pc[t] = "connected" /\ Due(t)
    /\ Goto(t, "poll")
    /\ UNCHANGED <<runVars, running, now, counterVars, current_time,
                   connection_semaphore, rateVars, last_connection_time, clientVars,
                   active_sessions, envVars, stats, dedupVars, sinkVars>>

\* lines 640-645: the registered client is asked to disconnect
Cleanup(t) ==
    /\ current = t /\ pc[t] = "cleanup"
    /\ IF t \in active_clients
       THEN /\ pc' = [pc EXCEPT ![t] = "disconnecting"]
            /\ Suspend
            /\ UNCHANGED wake
       ELSE Goto(t, "loop")
    /\ UNCHANGED <<runVars, running, now, counterVars, current_time,
                   connection_semaphore, rateVars, last_connection_time, clientVars,
                   active_sessions, envVars, stats, dedupVars, sinkVars>>

\* lines 643-646: disconnect() returned or raised; the client is dropped
DisconnectDone(t) ==
    /\ Idle /\ pc[t] = "disconnecting"
    /\ active_clients' = active_clients \ {t}
    /\ live' = live \ {t}
    /\ Goto(t, "loop")
    /\ UNCHANGED <<runVars, running, now, counterVars, current_time,
                   connection_semaphore, rateVars, last_connection_time,
                   active_sessions, envVars, stats, dedupVars, sinkVars>>

(* ------------------------- the client's signals ----------------------- *)
\* lines 530-541: the body of on_connect, run for a client that is started
ConnectSignal(username) ==
    /\ Idle /\ username \in live
    /\ signals' = signals + 1
    /\ active_sessions' = active_sessions \cup {username}
    /\ stats' = [stats EXCEPT !.active_connections = @ + 1]
    /\ SaveSystemEvent(username, ConnectedNotice)
    /\ UNCHANGED <<runVars, running, now, schedVars, counterVars, current_time,
                   connection_semaphore, rateVars, last_connection_time, clientVars,
                   starts, dedupVars>>

\* a run explores MaxSignals signals of the clients
OnConnect(username) ==
    /\ signals < MaxSignals
    /\ ConnectSignal(username)

\* lines 543-554: the body of on_disconnect, run for a client that is started
DisconnectSignal(username) ==
    /\ Idle /\ username \in live
    /\ signals' = signals + 1
    /\ IF username \in active_sessions
       THEN /\ active_sessions' = active_sessions \ {username}
            /\ stats' = [stats EXCEPT !.active_connections = Max(0, @ - 1)]
       ELSE UNCHANGED <<active_sessions, stats>>
    /\ SaveSystemEvent(username, DisconnectedNotice)
    /\ UNCHANGED <<runVars, running, now, schedVars, counterVars, current_time,
                   connection_semaphore, rateVars, last_connection_time, clientVars,
                   starts, dedupVars>>

OnDisconnect(username) ==
    /\ signals < MaxSignals
    /\ DisconnectSignal(username)

(* --------------------------- the environment -------------------------- *)
\* lines 214-216: the signal handler. A task reads the flag at the top of its loop
\* and in its poll only, so a signal that arrives while a task runs has the effect
\* of one that arrives right before or right after that run
Shutdown ==
    /\ Idle
    /\ running
    /\ running' = FALSE
    /\ UNCHANGED <<runVars, now, schedVars, counterVars, current_time,
                   connection_semaphore, rateVars, last_connection_time, clientVars,
                   active_sessions, envVars, stats, dedupVars, sinkVars>>

Horizon == IF Cardinality(streamers) = 1 THEN MaxTimeSolo ELSE MaxTime

Timed == {t \in streamers : pc[t] \in SleepPcs \cup {"starting"}}
Runnable(t) ==
    \/ pc[t] = "init"
    \/ pc[t] \in SleepPcs /\ wake[t] <= now
    \/ pc[t] = "queued" /\ Woken(connection_semaphore, t)

\* lines 657-659: the task starts; run() created it after the monitor tasks
ReporterStart ==
    /\ Idle /\ reporter.pc = "init"
    /\ \A t \in streamers : pc[t] # "init"
    /\ reporter' = IF running
                   THEN [pc |-> "sleeping", wake |-> now + report_interval]
                   ELSE [pc |-> "stopped", wake |-> 0]
    /\ UNCHANGED <<streamers, comment_history_file, restarted, teardown, running, now,
                   schedVars, counterVars, current_time, connection_semaphore,
                   rateVars, last_connection_time, clientVars, active_sessions,
                   envVars, stats, dedupVars, sinkVars>>

\* a reporter whose snapshot misses the entry that each ledger stored last
ReporterWakeMissesLast ==
    /\ Idle /\ reporter.pc = "sleeping" /\ reporter.wake <= now
    /\ IF running
       THEN /\ reporter' = [pc |-> "sleeping", wake |-> now + report_interval]
            /\ comment_history_file' =
                   SaveCommentHistory(
                       [u \in DOMAIN recent_comments |->
                           SubSeq(recent_comments[u], 1, Len(recent_comments[u]) - 1)],
                       now)
       ELSE /\ reporter' = [pc |-> "stopped", wake |-> 0]
            /\ UNCHANGED comment_history_file
    /\ UNCHANGED <<streamers, restarted, teardown, running, now,
                   schedVars, counterVars, current_time, connection_semaphore,
                   rateVars, last_connection_time, clientVars, active_sessions,
                   envVars, stats, dedupVars, sinkVars>>

\* lines 659-672 and 657: the sleep is over; the flag is read again, the history
\* and the statistics are saved, and the next sleep begins
ReporterWake ==
    /\ Idle /\ reporter.pc = "sleeping" /\ reporter.wake <= now
    /\ IF running
       THEN /\ reporter' = [pc |-> "sleeping", wake |-> now + report_interval]
            /\ comment_history_file' = SaveCommentHistory(recent_comments, now)
       ELSE /\ reporter' = [pc |-> "stopped", wake |-> 0]
            /\ UNCHANGED comment_history_file
    /\ UNCHANGED <<streamers, restarted, teardown, running, now,
                   schedVars, counterVars, current_time, connection_semaphore,
                   rateVars, last_connection_time, clientVars, active_sessions,
                   envVars, stats, dedupVars, sinkVars>>

ReporterRunnable ==
    \/ reporter.pc = "init" /\ \A t \in streamers : pc[t] # "init"
    \/ reporter.pc = "sleeping" /\ reporter.wake <= now

\* the timers that are pending
Deadlines ==
    {wake[t] : t \in Timed}
        \cup (IF reporter.pc = "sleeping" THEN {reporter.wake} ELSE {})

\* the clock advances to the next deadline once nothing is left to run; a run that
\* is not `far` ends at its horizon
Advance(far) ==
    /\ Idle
    /\ \A t \in streamers : ~Runnable(t)
    /\ ~ReporterRunnable
    /\ Deadlines # {}
    /\ LET next == SetMin(Deadlines)
       IN  /\ next > now
           /\ far \/ next <= Epoch + Horizon
           /\ now' = next
    /\ UNCHANGED <<runVars, running, schedVars, counterVars, current_time,
                   connection_semaphore, rateVars, last_connection_time, clientVars,
                   active_sessions, envVars, stats, dedupVars, sinkVars>>

Tick == Advance(FALSE)

\* a cooldown sleep (line 614) begins after three rate-limited attempts and two backoff
\* sleeps: its end lies beyond the horizons of this specification
Next ==
    \/ \E t \in streamers : MonitorStart(t)
    \/ \E t \in streamers : LoopTop(t)
    \/ \E t \in streamers : WakeBackoff(t)
    \/ \E t \in streamers : CooldownCheck(t)
    \/ \E t \in streamers : Acquire(t)
    \/ \E t \in streamers : Granted(t)
    \/ \E t \in streamers : GateCheck(t)
    \/ \E t \in streamers : WakeInterval(t)
    \/ \E t \in streamers : StartClient(t)
    \/ \E t \in streamers : StartReturns(t)
    \/ \E t \in streamers : StartRaises(t)
    \/ \E t \in streamers : StartTimeout(t)
    \/ \E t \in streamers : Poll(t)
    \/ \E t \in streamers : WakeConnected(t)
    \/ \E t \in streamers : Cleanup(t)
    \/ \E t \in streamers : DisconnectDone(t)
    \/ \E t \in streamers : OnConnect(t)
    \/ \E t \in streamers : OnDisconnect(t)
    \/ ReporterStart
    \/ ReporterWake
    \/ Shutdown
    \/ Tick

Spec == Init /\ [][Next]_vars

(* ------------- one loop with a history of failures behind it ---------- *)
\* the time at which a loop that started at Epoch stands at the top of its loop
\* after `failures` attempts that each waited the shorter pre-connection delay and
\* failed at once, with the shorter backoff sleep between them
RECURSIVE TimeOfFailure(_)
TimeOfFailure(failures) ==
    IF failures = 0 THEN Epoch
    ELSE TimeOfFailure(failures - 1) + pre_connection_delay[1]
             + (IF failures = 1 THEN 0
                ELSE ActualDelay(failures - 1, jitter_range[1]))

\* the loop of "a" at line 593 after `failures` errors without a rate-limit
\* indicator: every client was disconnected and dropped again
AfterFailures(failures) ==
    [failures |-> failures, rate_limits |-> 0,
     at |-> TimeOfFailure(failures),
     read_at |-> IF failures = 0 THEN 0 ELSE TimeOfFailure(failures - 1),
     last_connection_time |-> IF failures = 0 THEN 0 ELSE TimeOfFailure(failures),
     global_rate_limit_until |-> 0, streamer_rate_limits |-> <<>>,
     attempts |-> failures, failed |-> failures, hits |-> 0, clients |-> {}]

\* the time at which the loop stands at line 593 for the k-th time after its first
\* attempt failed with a rate-limit error and the later ones met the limit
RECURSIVE TimeOfLimit(_)
TimeOfLimit(k) ==
    IF k = 1 THEN Epoch + pre_connection_delay[1]
    ELSE TimeOfLimit(k - 1) + ActualDelay(k - 1, jitter_range[1])

\* the loop of "a" at line 593 after a rate-limit error and k - 1 returns from the
\* rate limit checks: the client of the first attempt is still registered
AfterRateLimits(k) ==
    [failures |-> k, rate_limits |-> k,
     at |-> TimeOfLimit(k),
     read_at |-> IF k = 1 THEN Epoch ELSE TimeOfLimit(k - 1),
     last_connection_time |-> TimeOfLimit(1),
     global_rate_limit_until |-> TimeOfLimit(1) + global_rate_limit_duration,
     streamer_rate_limits |-> [u \in {"a"} |-> TimeOfLimit(1) + per_streamer_rate_limit],
     attempts |-> k, failed |-> 1, hits |-> 1, clients |-> {"a"}]

Histories ==
    {AfterFailures(f) : f \in 0..MaxFailures} \cup {AfterRateLimits(k) : k \in 1..3}

\* the monitor_streamer task of target "a" alone, with the history h behind it; the
\* status_reporter task is left out
RetryInit ==
    \E h \in Histories :
        /\ streamers = {"a"}
        /\ running = TRUE
        /\ now = h.at
        /\ current = "a"
        /\ pc = [t \in Streamers |-> IF t = "a" THEN "loop" ELSE "init"]
        /\ wake = [t \in Streamers |-> 0]
        /\ consecutive_failures = [t \in Streamers |-> IF t = "a" THEN h.failures ELSE 0]
        /\ consecutive_rate_limits =
               [t \in Streamers |-> IF t = "a" THEN h.rate_limits ELSE 0]
        /\ last_success_time = [t \in Streamers |-> IF t = "a" THEN Epoch ELSE 0]
        /\ current_time = [t \in Streamers |-> IF t = "a" THEN h.read_at ELSE 0]
        /\ connection_semaphore = [value |-> max_concurrent_connections, waiters |-> <<>>]
        /\ global_rate_limit_until = h.global_rate_limit_until
        /\ streamer_rate_limits = h.streamer_rate_limits
        /\ last_connection_time = h.last_connection_time
        /\ active_clients = h.clients
        /\ active_sessions = {}
        /\ live = {}
        /\ signals = 0
        /\ starts = 0
        /\ stats = [connection_attempts |-> h.attempts, failed_connections |-> h.failed,
                    rate_limit_hits |-> h.hits, active_connections |-> 0,
                    comments_captured |-> 0, duplicates_filtered |-> 0,
                    last_update |-> 0]
        /\ recent_comments = <<>>
        /\ session_files = {}
        /\ sink = [u \in Streamers |-> <<>>]
        /\ forwarded = {}
        /\ last_event = NoEvent
        /\ events = 0
        /\ pool = {}
        /\ reporter = [pc |-> "none", wake |-> 0]
        /\ comment_history_file = HistoryFile(<<>>)
        /\ restarted = [up |-> FALSE, recent_comments |-> <<>>]
        /\ teardown = [pc |-> "gathering", todo |-> {}, log |-> <<>>]

\* the clock of a run whose attempts all fail is not cut at a horizon: the run ends
\* when MaxRetryStarts calls of client.start() have failed
RetryTick == Advance(TRUE)

\* lines 593-607, in a run that is followed until MaxRetryStarts calls of
\* client.start() have failed
RetryLoopTop(t) ==
    /\ starts < MaxRetryStarts
    /\ LoopTop(t)

\* every call of client.start() fails, and the flag stays set
RetryNext ==
    \/ \E t \in streamers : RetryLoopTop(t)
    \/ \E t \in streamers : WakeBackoff(t)
    \/ \E t \in streamers : CooldownCheck(t)
    \/ \E t \in streamers : WakeCooldown(t)
    \/ \E t \in streamers : Acquire(t)
    \/ \E t \in streamers : GateCheck(t)
    \/ \E t \in streamers : StartClient(t)
    \/ \E t \in streamers : StartRaises(t)
    \/ \E t \in streamers : StartTimeout(t)
    \/ \E t \in streamers : Cleanup(t)
    \/ \E t \in streamers : DisconnectDone(t)
    \/ RetryTick

RetrySpec == RetryInit /\ [][RetryNext]_vars

\* the event loop runs a task that is ready and fires a timer that is due, and a
\* call of client.start() that does not return is ended by asyncio.wait_for
RetryLiveSpec == RetrySpec /\ WF_vars(RetryNext)

(* ------------- one loop whose attempts succeed or fail ---------------- *)
\* the loop of "a" with its history behind it: a call of client.start() returns
\* or runs into the timeout; no ConnectEvent arrives, so that a session ends at the
\* first look at active_sessions. The run is followed until the loop waits for its
\* next call of client.start() after MaxStarts of them
RecoverNext ==
    \/ \E t \in streamers : LoopTop(t)
    \/ \E t \in streamers : WakeBackoff(t)
    \/ \E t \in streamers : CooldownCheck(t)
    \/ \E t \in streamers : WakeCooldown(t)
    \/ \E t \in streamers : Acquire(t)
    \/ \E t \in streamers : GateCheck(t)
    \/ \E t \in streamers : WakeInterval(t)
    \/ \E t \in streamers : StartClient(t)
    \/ \E t \in streamers : StartReturns(t)
    \/ \E t \in streamers : StartTimeout(t)
    \/ \E t \in streamers : Poll(t)
    \/ \E t \in streamers : Cleanup(t)
    \/ \E t \in streamers : DisconnectDone(t)
    \/ RetryTick

\* the loop of "a" after its first attempt met a rate limit
RecoverInit == RetryInit /\ stats.rate_limit_hits > 0

RecoverSpec == RecoverInit /\ [][RecoverNext]_vars

(* ------------------- the run after the shutdown signal ---------------- *)
\* once the flag is cleared the run is followed to its end: the clock is not cut at
\* the horizon, and the calls of client.start() are not counted against MaxStarts
LastTick == Advance(~running)
LastConnect(t) ==
    /\ starts < MaxStarts \/ ~running
    /\ Connect(t)

\* what the client of a target that is monitored alone does; in the run of three
\* targets every call of client.start() is ended by asyncio.wait_for
Alone == Cardinality(streamers) = 1
LastReturns(t) == Alone /\ StartReturns(t)
LastRaises(t) == Alone /\ StartRaises(t)
LastOnConnect(t) == Alone /\ OnConnect(t)
LastOnDisconnect(t) == Alone /\ OnDisconnect(t)

\* the steps the event loop takes by itself: a task that is ready runs, a timer
\* that is due fires, asyncio.wait_for ends a call of client.start() after
\* connection_timeout, and disconnect() returns
Scheduled ==
    \/ \E t \in streamers : MonitorStart(t)
    \/ \E t \in streamers : LoopTop(t)
    \/ \E t \in streamers : WakeBackoff(t)
    \/ \E t \in streamers : CooldownCheck(t)
    \/ \E t \in streamers : WakeCooldown(t)
    \/ \E t \in streamers : Acquire(t)
    \/ \E t \in streamers : Granted(t)
    \/ \E t \in streamers : GateCheck(t)
    \/ \E t \in streamers : WakeInterval(t)
    \/ \E t \in streamers : LastConnect(t)
    \/ \E t \in streamers : StartTimeout(t)
    \/ \E t \in streamers : Poll(t)
    \/ \E t \in streamers : WakeConnected(t)
    \/ \E t \in streamers : Cleanup(t)
    \/ \E t \in streamers : DisconnectDone(t)
    \/ ReporterStart
    \/ ReporterWake
    \/ LastTick

\* a run from its start, or the loop of one target with a history behind it
ShutdownInit == Init \/ RetryInit

ShutdownNext ==
    \/ \E t \in streamers : MonitorStart(t)
    \/ \E t \in streamers : LoopTop(t)
    \/ \E t \in streamers : WakeBackoff(t)
    \/ \E t \in streamers : CooldownCheck(t)
    \/ \E t \in streamers : WakeCooldown(t)
    \/ \E t \in streamers : Acquire(t)
    \/ \E t \in streamers : Granted(t)
    \/ \E t \in streamers : GateCheck(t)
    \/ \E t \in streamers : WakeInterval(t)
    \/ \E t \in streamers : LastConnect(t)
    \/ \E t \in streamers : StartTimeout(t)
    \/ \E t \in streamers : Poll(t)
    \/ \E t \in streamers : WakeConnected(t)
    \/ \E t \in streamers : Cleanup(t)
    \/ \E t \in streamers : DisconnectDone(t)
    \/ ReporterStart
    \/ ReporterWake
    \/ LastTick
    \/ \E t \in streamers : LastReturns(t)
    \/ \E t \in streamers : LastRaises(t)
    \/ \E t \in streamers : LastOnConnect(t)
    \/ \E t \in streamers : LastOnDisconnect(t)
    \/ Shutdown

ShutdownSpec == ShutdownInit /\ [][ShutdownNext]_vars /\ WF_vars(Scheduled)

(* ------------------------ the end of run() ---------------------------- *)
\* line 732: asyncio.gather has returned once every monitor_streamer task and the
\* status_reporter task are done
Gathered ==
    /\ \A t \in streamers : pc[t] = "stopped"
    /\ reporter.pc \in {"stopped", "none"}

\* a _cleanup that does not wait for the tasks
RunCleanupUngathered ==
    /\ Idle /\ teardown.pc = "gathering"
    /\ ~running
    /\ running' = FALSE
    /\ teardown' = [pc |-> "disconnecting", todo |-> active_clients, log |-> <<>>]
    /\ UNCHANGED <<streamers, reporter, comment_history_file, restarted, now,
                   schedVars, counterVars, current_time, connection_semaphore,
                   rateVars, last_connection_time, clientVars, active_sessions,
                   envVars, stats, dedupVars, sinkVars>>

\* lines 739-749: gather has returned and the finally clause calls _cleanup, which
\* clears the flag and begins to go through active_clients
RunCleanup ==
    /\ Idle /\ teardown.pc = "gathering"
    /\ Gathered
    /\ running' = FALSE
    /\ teardown' = [pc |-> "disconnecting", todo |-> active_clients, log |-> <<>>]
    /\ UNCHANGED <<streamers, reporter, comment_history_file, restarted, now,
                   schedVars, counterVars, current_time, connection_semaphore,
                   rateVars, last_connection_time, clientVars, active_sessions,
                   envVars, stats, dedupVars, sinkVars>>

\* lines 749-754: `await client.disconnect()` of one registered client returned or
\* raised; the dict stays as it is until the loop is through
RunCleanupDisconnect ==
    /\ Idle /\ teardown.pc = "disconnecting"
    /\ \E username \in teardown.todo :
           /\ teardown' = [teardown EXCEPT !.todo = @ \ {username},
                                           !.log = Append(@, username)]
           /\ live' = live \ {username}
    /\ UNCHANGED <<streamers, reporter, comment_history_file, restarted, running,
                   now, schedVars, counterVars, current_time, connection_semaphore,
                   rateVars, last_connection_time, active_clients, active_sessions,
                   envVars, stats, dedupVars, sinkVars>>

\* lines 756-761: the loop over the clients is through; both collections are
\* cleared, the comment history is saved and then the statistics
RunCleanupFinish ==
    /\ Idle /\ teardown.pc = "disconnecting"
    /\ teardown.todo = {}
    /\ active_clients' = {}
    /\ active_sessions' = {}
    /\ comment_history_file' = SaveCommentHistory(recent_comments, now)
    /\ teardown' = [teardown EXCEPT !.pc = "done",
                                    !.log = @ \o <<"history", "stats">>]
    /\ UNCHANGED <<streamers, reporter, restarted, running, now, schedVars,
                   counterVars, current_time, connection_semaphore, rateVars,
                   last_connection_time, live, envVars, stats, dedupVars, sinkVars>>

\* the run up to and after the shutdown signal, to the end of _cleanup
TeardownNext ==
    \/ ShutdownNext
    \/ RunCleanup
    \/ RunCleanupDisconnect
    \/ RunCleanupFinish

TeardownSpec == ShutdownInit /\ [][TeardownNext]_vars

(* ------------------ the sessions of one target's client -------------- *)
\* the client of a target may signal a connect or a disconnect at any time while it
\* is started, a connect also when the last signal was a connect (a client that
\* reconnects by itself)
SessionConnect(username) ==
    /\ signals < MaxSessionSignals
    /\ ConnectSignal(username)

SessionDisconnect(username) ==
    /\ signals < MaxSessionSignals
    /\ DisconnectSignal(username)

\* one target, from the start of its run to the end of _cleanup
SessionInit ==
    /\ Init
    /\ Alone

SessionNext ==
    \/ \E t \in streamers : MonitorStart(t)
    \/ \E t \in streamers : LoopTop(t)
    \/ \E t \in streamers : WakeBackoff(t)
    \/ \E t \in streamers : CooldownCheck(t)
    \/ \E t \in streamers : Acquire(t)
    \/ \E t \in streamers : GateCheck(t)
    \/ \E t \in streamers : WakeInterval(t)
    \/ \E t \in streamers : LastConnect(t)
    \/ \E t \in streamers : StartReturns(t)
    \/ \E t \in streamers : StartRaises(t)
    \/ \E t \in streamers : StartTimeout(t)
    \/ \E t \in streamers : Poll(t)
    \/ \E t \in streamers : WakeConnected(t)
    \/ \E t \in streamers : Cleanup(t)
    \/ \E t \in streamers : DisconnectDone(t)
    \/ \E t \in streamers : SessionConnect(t)
    \/ \E t \in streamers : SessionDisconnect(t)
    \/ ReporterStart
    \/ ReporterWake
    \/ Shutdown
    \/ LastTick
    \/ RunCleanup
    \/ RunCleanupDisconnect
    \/ RunCleanupFinish

SessionSpec == SessionInit /\ [][SessionNext]_vars

(* --------------- errors in an iteration of monitor_streamer ----------- *)
\* the places of the try block of lines 594-646 at which the task runs outside
\* create_streamer_client
ErrorPcs == {"cooldown_check", "poll", "cleanup"}

\* an error that ends the loop
IterationErrorEndsLoop(t) ==
    /\ current = t /\ pc[t] \in ErrorPcs
    /\ pc' = [pc EXCEPT ![t] = "stopped"]
    /\ Suspend
    /\ UNCHANGED <<runVars, running, now, wake, counterVars, current_time,
                   connection_semaphore, rateVars, last_connection_time, clientVars,
                   active_sessions, envVars, stats, dedupVars, sinkVars>>

\* lines 648-651: a statement of the iteration raises an Exception; the handler
\* counts a failure and sleeps before the next iteration
IterationError(t) ==
    /\ current = t /\ pc[t] \in ErrorPcs
    /\ consecutive_failures' = [consecutive_failures EXCEPT ![t] = @ + 1]
    /\ Sleep(t, "error_sleep", error_delay)
    /\ UNCHANGED <<runVars, running, now, consecutive_rate_limits, last_success_time,
                   current_time, connection_semaphore, rateVars, last_connection_time,
                   clientVars, active_sessions, envVars, stats, dedupVars, sinkVars>>

\* the sleep of line 651 is over: back to line 593
WakeError(t) ==
    /\ pc[t] = "error_sleep" /\ Due(t)
    /\ Goto(t, "loop")
    /\ UNCHANGED <<runVars, running, now, counterVars, current_time,
                   connection_semaphore, rateVars, last_connection_time, clientVars,
                   active_sessions, envVars, stats, dedupVars, sinkVars>>

\* the run up to and after the shutdown signal, with errors in the iterations
ContainNext ==
    \/ ShutdownNext
    \/ \E t \in streamers : IterationError(t)
    \/ \E t \in streamers : WakeError(t)

ContainSpec == ShutdownInit /\ [][ContainNext]_vars

(* ---------------------- properties of the orchestrator ---------------- *)
InGate == {t \in streamers : pc[t] \in GatePcs}

\* C1: in every reachable state the number of loops inside the admission gate of
\* create_streamer_client (permit held: rate-limit check, interval and pre-connection
\* sleeps, client.start) is at most max_concurrent_connections
C1_GateBound == Cardinality(InGate) <= max_concurrent_connections

\* more targets than permits are ready: the gate is full and a loop is queued
C1_GateFull ==
    /\ Cardinality(InGate) = max_concurrent_connections
    /\ \E t \in streamers : pc[t] = "queued"

\* the per-target deadline of a streamer, -1 when none was ever recorded
Deadline(limits, username) ==
    IF username \in DOMAIN limits THEN limits[username] ELSE -1

\* the step in which the attempt of streamer a ends with a rate-limit error
RateLimitErrorStep(a) ==
    /\ pc[a] = "starting"
    /\ pc'[a] # "starting"
    /\ stats'.rate_limit_hits = stats.rate_limit_hits + 1

\* C7: when the attempt for target a fails with a rate-limit error at time now, then
\* right afterwards the per-target limit of a and the global limit are active, and
\* the per-target deadline of every other target is unchanged
C7_SignalScope ==
    [][\A a \in streamers :
          RateLimitErrorStep(a) =>
              /\ IsStreamerLimited(a, now)'
              /\ IsGloballyLimited(now)'
              /\ \A b \in Streamers \ {a} :
                     Deadline(streamer_rate_limits', b) = Deadline(streamer_rate_limits, b)]_vars

\* two targets were limited at different times: each keeps its own deadline
C7_TwoSignals ==
    /\ stats.rate_limit_hits = 2
    /\ {"a", "b"} \subseteq DOMAIN streamer_rate_limits
    /\ streamer_rate_limits["a"] # streamer_rate_limits["b"]
    /\ IsGloballyLimited(now)
    /\ IsStreamerLimited("a", now) /\ IsStreamerLimited("b", now)

\* C8: recording a rate-limit signal never shortens a window: the global deadline and
\* every per-target deadline never decrease, and a recording sets the global deadline
\* to max(existing, now + global_rate_limit_duration) and the deadline of the target
\* to max(existing, now + per_streamer_rate_limit)
C8_DeadlinesMonotone ==
    [][/\ global_rate_limit_until' >= global_rate_limit_until
       /\ \A id \in Streamers :
              Deadline(streamer_rate_limits', id) >= Deadline(streamer_rate_limits, id)
       /\ \A a \in streamers :
              RateLimitErrorStep(a) =>
                  /\ global_rate_limit_until' =
                         Max(global_rate_limit_until, now + global_rate_limit_duration)
                  /\ Deadline(streamer_rate_limits', a) =
                         Max(Deadline(streamer_rate_limits, a),
                             now + per_streamer_rate_limit)]_vars

\* a second signal arrived while the global window of the first was still active
C8_WindowExtended ==
    /\ stats.rate_limit_hits = 2
    /\ \E id \in DOMAIN streamer_rate_limits :
           /\ streamer_rate_limits[id] - per_streamer_rate_limit > 0
           /\ global_rate_limit_until - global_rate_limit_duration
                  > streamer_rate_limits[id] - per_streamer_rate_limit

\* C9: client.start for target t is started only at a moment when neither the global
\* rate limit nor the rate limit of t is active, also when another loop recorded the
\* limit between the rate-limit check of t and its connect call
C9_NoStartWhileLimited ==
    [][\A t \in streamers :
          (pc[t] = "predelay" /\ pc'[t] = "starting") => ~RateLimitActive(t, now)]_vars

\* C10: a loop that finds a rate limit active holds no permit of the connection
\* semaphore: no loop stands at the rate-limit check inside the semaphore, a permit
\* in hand, while the global limit or its own limit is active
C10_LimitedHoldsNoPermit ==
    \A t \in streamers : pc[t] = "gate" => ~RateLimitActive(t, now)

\* the loops that hold a permit: inside the block, or handed one while queued
PermitHolders ==
    InGate \cup {t \in streamers : pc[t] = "queued" /\ Woken(connection_semaphore, t)}

\* C11: every exit from create_streamer_client gives the permit back: the permits
\* missing from the semaphore are exactly those of the loops inside the block, so a
\* loop in its backoff or cooldown wait or polling a session holds none, and with
\* no loop inside create_streamer_client the semaphore has its full capacity
C11_PermitsReturned ==
    /\ connection_semaphore.value =
           max_concurrent_connections - Cardinality(PermitHolders)
    /\ (\A t \in streamers : pc[t] \notin GatePcs \cup {"queued"}) =>
           /\ connection_semaphore.value = max_concurrent_connections
           /\ connection_semaphore.waiters = <<>>

\* attempts ended by a rate-limit error, by another error and by an early return,
\* and all the permits are back
C11_AllExitsTaken ==
    /\ stats.rate_limit_hits >= 1
    /\ stats.failed_connections > stats.rate_limit_hits
    /\ stats.connection_attempts > stats.failed_connections
    /\ \A t \in streamers : pc[t] \in {"backoff", "stopped"}
    /\ connection_semaphore.value = max_concurrent_connections

\* C12: any two connection attempts, of the same or of different targets, are at
\* least min_connection_interval apart: a loop connects only when that long has
\* passed since the connect before it
C12_MinimumInterval ==
    [][\A t \in streamers :
          (pc[t] = "predelay" /\ pc'[t] = "starting") =>
              now - last_connection_time >= min_connection_interval]_vars

\* C14: no loop is in a backoff wait or a rate-limit cooldown wait that ends more
\* than one polling interval later, so a shutdown is observed within that interval
C14_WaitsWithinPollInterval ==
    \A t \in streamers :
        pc[t] \in {"backoff", "cooldown"} => wake[t] - now <= poll_interval

\* the step in which the attempt of streamer a ends with an error that carries
\* no rate-limit indicator
PlainErrorStep(a) ==
    /\ pc[a] = "starting"
    /\ pc'[a] # "starting"
    /\ stats'.failed_connections = stats.failed_connections + 1
    /\ stats'.rate_limit_hits = stats.rate_limit_hits

\* C19: an error with a rate-limit indicator adds one to the target's consecutive
\* rate-limit counter and records the limit; an error without an indicator adds one
\* to the failure counter only; the rate-limit counter grows in no other step
C19_FailureClassification ==
    [][\A t \in streamers :
          /\ RateLimitErrorStep(t) =>
                 /\ consecutive_rate_limits'[t] = consecutive_rate_limits[t] + 1
                 /\ global_rate_limit_until' = now + global_rate_limit_duration
                 /\ Deadline(streamer_rate_limits', t) = now + per_streamer_rate_limit
          /\ PlainErrorStep(t) =>
                 /\ consecutive_failures'[t] = consecutive_failures[t] + 1
                 /\ consecutive_rate_limits'[t] = consecutive_rate_limits[t]
          /\ consecutive_rate_limits'[t] > consecutive_rate_limits[t] =>
                 RateLimitErrorStep(t)]_vars

\* every monitor loop and the status reporter (where it is part of the run) have
\* left their loops, and the semaphore has all its permits and no waiter
AllStopped ==
    /\ \A t \in streamers : pc[t] = "stopped"
    /\ reporter.pc \in {"stopped", "none"}
    /\ connection_semaphore.value = max_concurrent_connections
    /\ connection_semaphore.waiters = <<>>

\* C13: once the running flag is cleared, every monitor_streamer loop and the
\* status_reporter eventually leave their loops, and no permit is held then
C13_ShutdownCompletes == (~running) ~> AllStopped

\* three loops have stopped after the flag was cleared while calls of client.start()
\* were pending, later than the horizon of the run
C13_StoppedAfterConnects ==
    /\ AllStopped
    /\ streamers = Streamers
    /\ starts >= MaxStarts
    /\ stats.connection_attempts >= 3
    /\ now > Epoch + MaxTime

\* the call of client.start() of task t returns: create_streamer_client hands
\* (True, False) to line 618
SuccessStep(t) == pc[t] = "starting" /\ pc'[t] = "poll"

\* C22: a successful attempt sets the consecutive-failure counter and the
\* consecutive rate-limit counter of its target to 0 and last_success_time to the
\* current time; the first failure after it makes the failure count 1, and the
\* backoff sleep that follows is the delay of one failure
C22_SuccessResets ==
    [][\A t \in streamers :
          /\ SuccessStep(t) =>
                 /\ consecutive_failures'[t] = 0
                 /\ consecutive_rate_limits'[t] = 0
                 /\ last_success_time'[t] = now
          /\ (consecutive_failures[t] = 0 /\ consecutive_failures'[t] # 0) =>
                 consecutive_failures'[t] = 1
          /\ (pc[t] = "loop" /\ pc'[t] = "backoff" /\ consecutive_failures[t] = 1) =>
                 \E jitter \in JitterSamples :
                     wake'[t] = now + ActualDelay(1, jitter)]_vars

\* a loop that was rate limited, succeeded later and failed again sleeps the delay
\* of one failure
C22_RetryAfterSuccess ==
    /\ pc["a"] = "backoff" /\ consecutive_failures["a"] = 1
    /\ consecutive_rate_limits["a"] = 0
    /\ last_success_time["a"] > Epoch
    /\ stats.rate_limit_hits >= 1
    /\ wake["a"] - now = ActualDelay(1, jitter_range[1])

\* the loop of t is in its cooldown: three or more rate limits in a row, and less
\* than rate_limit_cooldown since its last success (line 589: the start of the
\* loop counts as the first success)
InCooldown(t) ==
    /\ consecutive_rate_limits[t] >= 3
    /\ now - last_success_time[t] < rate_limit_cooldown

\* C23: a loop in its cooldown makes no connection attempt and acquires no permit:
\* it is not in create_streamer_client, neither waiting for a permit nor holding one
C23_NoAttemptInCooldown ==
    \A t \in streamers :
        InCooldown(t) =>
            /\ pc[t] \notin GatePcs \cup {"acquire", "queued"}
            /\ t \notin PermitHolders

\* a loop in its cooldown sleeps the capped cooldown
C23_CooldownSleeps ==
    /\ InCooldown("a") /\ pc["a"] = "cooldown"
    /\ wake["a"] - now = cooldown_sleep_cap
    /\ stats.connection_attempts >= 3

\* C24: an iteration of a loop in its cooldown waits the cooldown instead of the
\* backoff delay: it begins no backoff sleep, and from the top of the iteration
\* (the reading of line 595) to the end of its cooldown sleep at most
\* cooldown_sleep_cap seconds pass
C24_CooldownInsteadOfBackoff ==
    [][\A t \in streamers :
          /\ (InCooldown(t) /\ pc[t] = "loop") => pc'[t] # "backoff"
          /\ (pc[t] = "cooldown_check" /\ pc'[t] = "cooldown") =>
                 wake'[t] - current_time[t] <= cooldown_sleep_cap]_vars

\* C25: every connection attempt is preceded by a wait of the backoff policy: each
\* iteration that the loop enters with the flag set begins with a sleep of
\* min(base_delay * backoff_multiplier ^ consecutive_failures, max_delay) times the
\* jitter, also with no failure behind it
C25_EveryAttemptWaits ==
    [][\A t \in streamers :
          (running /\ pc[t] = "loop" /\ pc'[t] # "loop") =>
              /\ pc'[t] = "backoff"
              /\ \E jitter \in JitterSamples :
                     wake'[t] = now + ActualDelay(consecutive_failures[t], jitter)]_vars

\* the step in which asyncio.wait_for ends the attempt of t with a timeout; in
\* RecoverSpec a call of client.start() ends in no other way than by returning or
\* by the timeout
TimeoutStep(t) == pc[t] = "starting" /\ pc'[t] \notin {"starting", "poll"}

\* C26: an attempt that exceeds connection_timeout is an ordinary failure:
\* failed_connections and the consecutive-failure counter of the target grow by one,
\* rate_limit_hits and the consecutive rate-limit counter stay, and neither the global
\* nor any per-target deadline changes (the text of the timeout holds no rate-limit
\* indicator)
C26_TimeoutIsPlainFailure ==
    [][\A t \in streamers :
          TimeoutStep(t) =>
              /\ now = last_connection_time + connection_timeout
              /\ ~IsRateLimitError(TimeoutMessage)
              /\ stats'.failed_connections = stats.failed_connections + 1
              /\ consecutive_failures'[t] = consecutive_failures[t] + 1
              /\ stats'.rate_limit_hits = stats.rate_limit_hits
              /\ consecutive_rate_limits'[t] = consecutive_rate_limits[t]
              /\ global_rate_limit_until' = global_rate_limit_until
              /\ streamer_rate_limits' = streamer_rate_limits
              /\ pc'[t] = "cleanup"]_vars

\* an attempt has timed out in a run in which both deadlines had been set before
C26_TimedOut ==
    /\ pc["a"] = "cleanup" /\ current = "a"
    /\ now = last_connection_time + connection_timeout
    /\ stats.failed_connections = 2 /\ stats.rate_limit_hits = 1
    /\ global_rate_limit_until > 0 /\ "a" \in DOMAIN streamer_rate_limits

\* C27: a monitor loop stops only at line 593 with the running flag cleared, and
\* so does the reporter; the step in which one task stops, and every step in which
\* an attempt, a disconnect or another statement of an iteration fails, leaves all
\* other tasks where they are
C27_ErrorContainment ==
    [][/\ \A t \in streamers :
             /\ (pc[t] # "stopped" /\ pc'[t] = "stopped") =>
                    /\ ~running /\ pc[t] = "loop"
                    /\ \A u \in streamers \ {t} : pc'[u] = pc[u]
                    /\ reporter' = reporter
             /\ (pc[t] \in ErrorPcs \cup {"starting", "disconnecting"}
                     /\ pc'[t] # pc[t]) =>
                    /\ pc'[t] # "stopped"
                    /\ \A u \in streamers \ {t} : pc'[u] = pc[u]
                    /\ reporter' = reporter
       /\ (reporter.pc # "stopped" /\ reporter'.pc = "stopped") =>
              ~running /\ pc' = pc]_vars

\* with the flag set, the loop of a sleeps after an error in its iteration, the
\* loop of b has gone on to start its client and the reporter sleeps
C27_LoopSurvivesError ==
    /\ running
    /\ pc["a"] = "error_sleep" /\ consecutive_failures["a"] = 1
    /\ "b" \in streamers /\ pc["b"] = "starting"
    /\ reporter.pc = "sleeping"

\* the entries of a sequence
Range(seq) == {seq[i] : i \in DOMAIN seq}

\* C28: _cleanup begins only when every monitor loop and the reporter are done;
\* it disconnects every registered client, each once, before it saves anything,
\* then saves the comment history and then the statistics; when it is through,
\* active_clients and active_sessions are empty
C28_TeardownOrdered ==
    /\ teardown.pc # "gathering" => (Gathered /\ ~running)
    /\ teardown.pc = "gathering" => teardown.log = <<>>
    /\ teardown.pc = "disconnecting" =>
           /\ Range(teardown.log) \cup teardown.todo = active_clients
           /\ Range(teardown.log) \cap teardown.todo = {}
           /\ Cardinality(Range(teardown.log)) = Len(teardown.log)
    /\ teardown.pc = "done" =>
           /\ active_clients = {} /\ active_sessions = {} /\ live = {}
           /\ teardown.todo = {}
           /\ LET n == Len(teardown.log)
              IN  /\ n >= 2
                  /\ teardown.log[n - 1] = "history" /\ teardown.log[n] = "stats"
                  /\ \A i \in 1..(n - 2) : teardown.log[i] \in streamers
                  /\ Cardinality({teardown.log[i] : i \in 1..(n - 2)}) = n - 2
           /\ comment_history_file = SaveCommentHistory(recent_comments, now)

\* _cleanup is through in a run that ended with a client still registered: the
\* client was disconnected before the history and the statistics were saved
C28_RemainingClientDisconnected ==
    /\ teardown.pc = "done"
    /\ teardown.log = <<"a", "history", "stats">>
    /\ stats.rate_limit_hits >= 1
    /\ comment_history_file.exists

\* the connect signal of a client of t has been delivered: on_connect has written
\* its notice to the session file of t
ConnectDelivered(t) ==
    \E i \in DOMAIN sink[t] :
        sink[t][i] = [kind |-> "system", content |-> ConnectedNotice]

\* C31: a loop leaves its connected state (the poll of lines 632-633, to go on to
\* disconnect and drop the client) only after a shutdown or after the client's
\* connect signal was delivered; a success return scheduled ahead of the connect
\* signal does not make the loop give the client up
C31_LeavesConnectedOnSignal ==
    [][\A t \in streamers :
          (running /\ pc[t] = "poll" /\ pc'[t] = "cleanup") =>
              ConnectDelivered(t)]_vars

\* C32: the counter of active connections is the number of targets in
\* active_sessions
C32_ActiveConnectionsCounted ==
    stats.active_connections = Cardinality(active_sessions)

\* C33: a loop calls create_streamer_client (line 618) only when no client of
\* its target is registered, so the client of every attempt that failed has been
\* disconnected and removed by then; and the client that line 491 registers never
\* takes the place of one that is still registered
C33_FailedClientDropped ==
    [][\A t \in streamers :
          /\ (pc[t] = "cooldown_check" /\ pc'[t] = "acquire") => t \notin active_clients
          /\ (pc[t] = "predelay" /\ pc'[t] = "starting") => t \notin active_clients]_vars

(* ------------------------- comment deduplication ---------------------- *)
\* unicodedata.normalize('NFC', s): the compositions of the model's code points
\* (e, E followed by the combining acute accent U+0301)
RECURSIVE NFC(_)
NFC(s) ==
    IF Len(s) < 2 THEN s
    ELSE IF s[2] = 769 /\ s[1] \in {69, 101}
         THEN <<IF s[1] = 101 THEN 233 ELSE 201>> \o NFC(SubSeq(s, 3, Len(s)))
         ELSE <<s[1]>> \o NFC(Tail(s))

\* hashlib.md5(key.encode('utf-8')).hexdigest() on the keys of the model: the first
\* eight hexadecimal digits and the other twenty-four
MD5(key) ==
    CASE key = <<117, 49, 124>> -> [p8 |-> "833597e5", rest |-> "b182cc5af9fb3e7a6c0db77e"]
      [] key = <<117, 49, 124, 104, 105>> -> [p8 |-> "7613dfce", rest |-> "7cc6a89ca14cb2396c1d9365"]
      [] key = <<117, 49, 124, 72, 105, 33, 33>> -> [p8 |-> "c95d39c4", rest |-> "370a0dd34aa4b8d7b7f20433"]
      [] key = <<117, 49, 124, 104, 105, 33, 33>> -> [p8 |-> "ceb9d9eb", rest |-> "a1440591246857ea2e4c9887"]
      [] key = <<117, 49, 124, 111, 107>> -> [p8 |-> "b31b9753", rest |-> "4cc2ea45d75626aa9bc36d7b"]
      [] key = <<117, 49, 124, 121, 111>> -> [p8 |-> "ee2bea55", rest |-> "7392c9764341b4ef7aa7d028"]
      [] key = <<117, 49, 124, 128293, 128293, 128293>> -> [p8 |-> "90ea19ce", rest |-> "a2e74990df75c734f8be4995"]
      [] key = <<117, 49, 124, 128293>> -> [p8 |-> "72c32a53", rest |-> "5bf1e9e0e0d67d7d439a721b"]
      [] key = <<117, 49, 124, 104, 105, 32, 128293>> -> [p8 |-> "e5c5fe28", rest |-> "80c5aa9060e5002c27666ecc"]
      [] key = <<117, 49, 124, 233>> -> [p8 |-> "6ad88c5a", rest |-> "4d37aa410b3a93ea0745257e"]
      [] key = <<117, 49, 124, 201>> -> [p8 |-> "e1e6150d", rest |-> "f323d1a4aedc37ad6911d208"]
      [] key = <<117, 50, 124>> -> [p8 |-> "176e8282", rest |-> "58761b13afcf8f0027d37514"]
      [] key = <<117, 50, 124, 104, 105>> -> [p8 |-> "43c81818", rest |-> "abc29ccb4a43bcfefffae9ad"]

\* an ordered dict hash -> timestamp, as a sequence of entries in insertion order
HasKey(d, h) == \E i \in DOMAIN d : d[i].hash = h
Lookup(d, h) == d[CHOOSE i \in DOMAIN d : d[i].hash = h].ts
OrderedPut(d, h, ts) ==
    IF HasKey(d, h)
    THEN [i \in DOMAIN d |-> IF d[i].hash = h THEN [hash |-> h, ts |-> ts] ELSE d[i]]
    ELSE Append(d, [hash |-> h, ts |-> ts])

exact_window == 30
similar_window == 10
rapid_window == 5
rapid_count == 3
history_horizon == 3600
max_history == 1000
kept_history == 500

\* lines 382-383
ExactHash(commenter, comment) == MD5(commenter \o <<124>> \o Strip(comment))
\* a similarity key that keeps the case of the text
SimilarityHashNoLower(commenter, comment) ==
    MD5(commenter \o <<124>> \o NFC(Strip(comment)))

\* lines 391-393
SimilarityHash(commenter, comment) ==
    MD5(commenter \o <<124>> \o NFC(Strip(Lower(comment))))
\* line 404: hashlib.md5(user_prefix.encode('utf-8')).hexdigest()[:8]
UserPrefix(commenter) == MD5(commenter \o <<124>>).p8

\* the exact key is remembered for the window of the similarity key only
ExactRepeatShortWindow(d, commenter, comment, at) ==
    /\ HasKey(d, ExactHash(commenter, comment))
    /\ at - Lookup(d, ExactHash(commenter, comment)) < similar_window

\* lines 385-388
ExactRepeat(d, commenter, comment, at) ==
    /\ HasKey(d, ExactHash(commenter, comment))
    /\ at - Lookup(d, ExactHash(commenter, comment)) < exact_window

\* lines 395-398
SimilarRepeat(d, commenter, comment, at) ==
    /\ HasKey(d, SimilarityHash(commenter, comment))
    /\ at - Lookup(d, SimilarityHash(commenter, comment)) < similar_window

\* lines 401-409: the entries whose hash starts with the first eight digits of the
\* hash of "commenter|"
RapidFire(d, commenter, at) ==
    Cardinality({i \in DOMAIN d : /\ d[i].hash.p8 = UserPrefix(commenter)
                                  /\ at - d[i].ts < rapid_window}) >= rapid_count

\* lines 437-443: sorted(items, key=timestamp, reverse=True)[:500]; the sort is
\* stable, so the entries of one timestamp keep their order of insertion
RECURSIVE NewestFirst(_, _)
NewestFirst(d, stamps) ==
    IF stamps = {} THEN <<>>
    ELSE LET newest == CHOOSE x \in stamps : \A y \in stamps : y <= x
         IN  SelectSeq(d, LAMBDA e : e.ts = newest)
                 \o NewestFirst(d, stamps \ {newest})
MostRecent(d, n) ==
    SubSeq(NewestFirst(d, {d[i].ts : i \in DOMAIN d}), 1, Min(n, Len(d)))

\* a cleanup that drops the old entries and never truncates
CleanupOldCommentsPurgeOnly(d, at) ==
    SelectSeq(d, LAMBDA e : ~(e.ts < at - history_horizon))

\* lines 420-443: _cleanup_old_comments
CleanupOldComments(d, at) ==
    LET fresh == SelectSeq(d, LAMBDA e : ~(e.ts < at - history_horizon))
    IN  IF Len(fresh) > max_history THEN MostRecent(fresh, kept_history) ELSE fresh

\* lines 411-416: both hashes are stored, then the old entries are dropped
StoreHashes(d, commenter, comment, at) ==
    CleanupOldComments(
        OrderedPut(OrderedPut(d, ExactHash(commenter, comment), at),
                   SimilarityHash(commenter, comment), at),
        at)

\* lines 378-409: the three strategies of _is_duplicate_comment
IsDuplicateComment(d, commenter, comment, at) ==
    \/ ExactRepeat(d, commenter, comment, at)
    \/ SimilarRepeat(d, commenter, comment, at)
    \/ RapidFire(d, commenter, at)

\* the character class without its range of symbols and pictographs
IsEmojiCharNoPictographs(c) ==
    \/ c >= 128512 /\ c <= 128591
    \/ c >= 128640 /\ c <= 128767
    \/ c >= 127456 /\ c <= 127487
    \/ c >= 9986 /\ c <= 10160
    \/ c >= 9410 /\ c <= 127569
    \/ c >= 129280 /\ c <= 129535
    \/ c >= 129648 /\ c <= 129791

\* the character class of lines 195-204
IsEmojiChar(c) ==
    \/ c >= 128512 /\ c <= 128591
    \/ c >= 127744 /\ c <= 128511
    \/ c >= 128640 /\ c <= 128767
    \/ c >= 127456 /\ c <= 127487
    \/ c >= 9986 /\ c <= 10160
    \/ c >= 9410 /\ c <= 127569
    \/ c >= 129280 /\ c <= 129535
    \/ c >= 129648 /\ c <= 129791

\* lines 182-210: _is_emoji_only_message
IsEmojiOnlyMessage(text) ==
    IF text = <<>> \/ Strip(text) = <<>> THEN TRUE
    ELSE LET text_no_space == SelectSeq(text, LAMBDA c : c \notin {32, 10, 13, 9})
             text_no_emoji == SelectSeq(text_no_space, LAMBDA c : ~IsEmojiChar(c))
         IN  text_no_space = <<>> \/ Len(Strip(text_no_emoji)) = 0

\* line 378: the ledger of a streamer, empty when it has none yet
Ledger(username) ==
    IF username \in DOMAIN recent_comments THEN recent_comments[username] ELSE <<>>

\* a save_event whose emoji filter returns without counting the event
SaveCommentEmojiUncounted(username, commenter, content) ==
    IF IsDuplicateComment(Ledger(username), commenter, content, now)
    THEN /\ recent_comments' = DictSet(recent_comments, username, Ledger(username))
         /\ stats' = [stats EXCEPT !.duplicates_filtered = @ + 1]
         /\ UNCHANGED sinkVars
    ELSE /\ recent_comments' =
               DictSet(recent_comments, username,
                       StoreHashes(Ledger(username), commenter, content, now))
         /\ IF IsEmojiOnlyMessage(content)
            THEN UNCHANGED <<stats, sinkVars>>
            ELSE /\ session_files' = session_files \cup {username}
                 /\ sink' = [sink EXCEPT ![username] =
                               Append(WithSessionFile(username),
                                      [kind |-> "comment",
                                       content |-> CleanContent(content)])]
                 /\ stats' = [stats EXCEPT !.comments_captured = @ + 1,
                                           !.last_update = now]

\* a save_event that takes its decision and leaves the recording of the keys to
\* a later step, which has not run when the next event is examined
SaveCommentDecidesOnly(username, commenter, content) ==
    /\ recent_comments' = DictSet(recent_comments, username, Ledger(username))
    /\ IF IsDuplicateComment(Ledger(username), commenter, content, now)
             \/ IsEmojiOnlyMessage(content)
       THEN /\ stats' = [stats EXCEPT !.duplicates_filtered = @ + 1]
            /\ UNCHANGED sinkVars
       ELSE /\ session_files' = session_files \cup {username}
            /\ sink' = [sink EXCEPT ![username] =
                          Append(WithSessionFile(username),
                                 [kind |-> "comment",
                                  content |-> CleanContent(content)])]
            /\ stats' = [stats EXCEPT !.comments_captured = @ + 1,
                                      !.last_update = now]

\* a save_event that records the keys of every event, also of a suppressed one
SaveCommentRecordsRepeats(username, commenter, content) ==
    /\ recent_comments' =
           DictSet(recent_comments, username,
                   StoreHashes(Ledger(username), commenter, content, now))
    /\ IF IsDuplicateComment(Ledger(username), commenter, content, now)
             \/ IsEmojiOnlyMessage(content)
       THEN /\ stats' = [stats EXCEPT !.duplicates_filtered = @ + 1]
            /\ UNCHANGED sinkVars
       ELSE /\ session_files' = session_files \cup {username}
            /\ sink' = [sink EXCEPT ![username] =
                          Append(WithSessionFile(username),
                                 [kind |-> "comment",
                                  content |-> CleanContent(content)])]
            /\ stats' = [stats EXCEPT !.comments_captured = @ + 1,
                                      !.last_update = now]

\* save_event(username, "comment", commenter, content), lines 315-362
SaveComment(username, commenter, content) ==
    IF IsDuplicateComment(Ledger(username), commenter, content, now)
    THEN /\ recent_comments' = DictSet(recent_comments, username, Ledger(username))
         /\ stats' = [stats EXCEPT !.duplicates_filtered = @ + 1]
         /\ UNCHANGED sinkVars
    ELSE /\ recent_comments' =
               DictSet(recent_comments, username,
                       StoreHashes(Ledger(username), commenter, content, now))
         /\ IF IsEmojiOnlyMessage(content)
            THEN /\ stats' = [stats EXCEPT !.duplicates_filtered = @ + 1]
                 /\ UNCHANGED sinkVars
            ELSE /\ session_files' = session_files \cup {username}
                 /\ sink' = [sink EXCEPT ![username] =
                               Append(WithSessionFile(username),
                                      [kind |-> "comment",
                                       content |-> CleanContent(content)])]
                 /\ stats' = [stats EXCEPT !.comments_captured = @ + 1,
                                           !.last_update = now]

\* the comment events of one run come from one of these pools
A1 == <<117, 49>>
A2 == <<117, 50>>
Ev(username, commenter, comment) ==
    [username |-> username, commenter |-> commenter, comment |-> comment]
Pools ==
    { \* "hi", "Hi!!", "hi!!" of one author
      {Ev("a", A1, <<104, 105>>), Ev("a", A1, <<72, 105, 33, 33>>),
       Ev("a", A1, <<104, 105, 33, 33>>)},
      \* four texts of one author, distinct after normalisation
      {Ev("a", A1, <<104, 105>>), Ev("a", A1, <<111, 107>>),
       Ev("a", A1, <<121, 111>>), Ev("a", A1, <<104, 105, 33, 33>>)},
      \* three fire emojis; blank, fire and newline; "hi" and a fire; " hi "
      {Ev("a", A1, <<128293, 128293, 128293>>), Ev("a", A1, <<32, 128293, 10>>),
       Ev("a", A1, <<104, 105, 32, 128293>>), Ev("a", A1, <<32, 104, 105, 32>>)},
      \* "hi" of two authors and for two streamers
      {Ev("a", A1, <<104, 105>>), Ev("a", A2, <<104, 105>>),
       Ev("b", A1, <<104, 105>>)},
      \* e and E with a combining acute accent, and the precomposed e acute
      {Ev("a", A1, <<101, 769>>), Ev("a", A1, <<69, 769>>), Ev("a", A1, <<233>>)} }

\* lines 556-578: on_comment, which normalises and hands over to save_event
HandleComment(username, commenter, comment) ==
    /\ events' = events + 1
    /\ SaveComment(username, NFC(commenter), NFC(comment))
    /\ last_event' = [username |-> username, commenter |-> NFC(commenter),
                      comment |-> NFC(comment), at |-> now]
    /\ forwarded' = IF sink'[username] # sink[username]
                    THEN forwarded \cup {last_event'}
                    ELSE forwarded

\* a comment event of a run that handles MaxEvents of them
OnComment(username, commenter, comment) ==
    /\ events < MaxEvents
    /\ HandleComment(username, commenter, comment)
    /\ UNCHANGED <<orchVars, now, pool>>

\* time passes between two comment events: the clock moves on to a later one of the
\* instants at which the events of a run arrive
Instants == {5, 10, 11, 30, 31}
Elapse ==
    /\ \E i \in Instants : /\ Epoch + i > now
                           /\ i <= MaxDedupTime
                           /\ now' = Epoch + i
    /\ UNCHANGED <<orchVars, stats, dedupVars, sinkVars>>

DedupInit ==
    /\ Boot
    /\ streamers = Streamers
    /\ pool \in Pools

DedupNext ==
    \/ \E e \in pool : OnComment(e.username, e.commenter, e.comment)
    \/ Elapse

DedupSpec == DedupInit /\ [][DedupNext]_vars

\* the digest of the key of a comment of some other author
OtherHash(i) == [p8 |-> "0f0f0f0f", rest |-> ToString(i)]

\* a ledger of n such entries, one or two seconds old, but for the first `old` of
\* them, which are older than the hour _cleanup_old_comments keeps
History(n, old) ==
    [i \in 1..n |-> [hash |-> OtherHash(i),
                     ts |-> IF i <= old THEN Epoch - history_horizon - 100
                            ELSE Epoch - 1 - (i % 2)]]

\* the histories an instance starts from: none, or the ledger of target "a" as
\* an earlier run left it, at the cap of 1000 entries or just below
FullHistories ==
    {<<>>} \cup {[u \in {"a"} |-> History(n, old)] :
                    n \in (max_history - 2)..max_history, old \in 0..1}

\* "hi" and "Hi!!" of one author, "hi" of another author and for another target
FullPool ==
    {Ev("a", A1, <<104, 105>>), Ev("a", A1, <<72, 105, 33, 33>>),
     Ev("a", A2, <<104, 105>>), Ev("b", A1, <<104, 105>>)}

FullInit ==
    /\ \E history \in FullHistories : Constructed(history)
    /\ streamers = Streamers
    /\ pool = FullPool

\* the comment events of a run that starts from a full ledger
FullComment(e) ==
    /\ events < MaxFullEvents
    /\ OnComment(e.username, e.commenter, e.comment)

FullNext ==
    \/ \E e \in pool : FullComment(e)
    \/ Elapse

FullSpec == FullInit /\ [][FullNext]_vars

\* a ledger of n entries that all carry the clock reading Epoch: the keys of a burst
\* of comments for which time.time() (line 318) returned one and the same value
TiedHistory(n) == [i \in 1..n |-> [hash |-> OtherHash(i), ts |-> Epoch]]

\* the ledger of target "a" after such a burst, at the cap or just below
BurstHistories ==
    {[u \in {"a"} |-> TiedHistory(n)] : n \in (max_history - 2)..max_history}

BurstInit ==
    /\ \E history \in BurstHistories : Constructed(history)
    /\ streamers = Streamers
    /\ pool = FullPool

\* the comment events that follow the burst, at the same clock reading or later
BurstSpec == BurstInit /\ [][FullNext]_vars

(* ----------------- a stream of identical comment events --------------- *)
\* the event a client delivers again and again: "hi", "Hi!!" (whose exact and
\* normalised keys differ) or three fire emojis, of one author for target "a"
StreamPools ==
    {{Ev("a", A1, <<104, 105>>)}, {Ev("a", A1, <<72, 105, 33, 33>>)},
     {Ev("a", A1, <<128293, 128293, 128293>>)}}

StreamInit ==
    /\ Boot
    /\ streamers = {"a"}
    /\ pool \in StreamPools

StreamComment(e) ==
    /\ events < MaxStreamEvents
    /\ HandleComment(e.username, e.commenter, e.comment)
    /\ UNCHANGED <<orchVars, now, pool>>

\* the instants at which the events of the stream arrive
StreamInstants == {1, 10, 29, 30, 31, 40, 59, 60, 61, 62}
StreamElapse ==
    /\ \E i \in StreamInstants : /\ Epoch + i > now
                                 /\ i <= MaxStreamTime
                                 /\ now' = Epoch + i
    /\ UNCHANGED <<orchVars, stats, dedupVars, sinkVars>>

StreamNext ==
    \/ \E e \in pool : StreamComment(e)
    \/ StreamElapse

StreamSpec == StreamInit /\ [][StreamNext]_vars

(* ------------------------ the history file ---------------------------- *)
LedgerOf(history, username) ==
    IF username \in DOMAIN history THEN history[username] ELSE <<>>

\* recent_comments after _is_duplicate_comment(username, commenter, comment, at)
AfterComment(history, username, commenter, comment, at) ==
    LET d == LedgerOf(history, username)
    IN  DictSet(history, username,
                IF IsDuplicateComment(d, commenter, comment, at) THEN d
                ELSE StoreHashes(d, commenter, comment, at))

\* the file an instance starts from: none, or one that an earlier run left with
\* entries of 25 hours, of 67 minutes and of 20 seconds ago for target "a" and
\* an entry of 25 hours ago for target "b"
LeftHistories ==
    {<<>>,
     [u \in {"a", "b"} |->
        IF u = "a"
        THEN <<[hash |-> ExactHash(A1, <<72, 105, 33, 33>>), ts |-> Epoch - 90000],
               [hash |-> ExactHash(A2, <<104, 105>>), ts |-> Epoch - 4000],
               [hash |-> ExactHash(A1, <<104, 105>>), ts |-> Epoch - 20]>>
        ELSE <<[hash |-> ExactHash(A1, <<104, 105>>), ts |-> Epoch - 90000]>>]}

SnapshotInit ==
    /\ \E history \in LeftHistories : Constructed(history)
    /\ streamers = Streamers
    /\ pool = FullPool

\* the instance writes its history (lines 234-253, called at lines 669 and 761),
\* and a later instance loads the file (line 110); the first instance goes on
Restart ==
    /\ ~restarted.up
    /\ comment_history_file' = SaveCommentHistory(recent_comments, now)
    /\ restarted' = [up |-> TRUE,
                     recent_comments |-> LoadCommentHistory(comment_history_file')]
    /\ UNCHANGED <<streamers, reporter, teardown, running, now, schedVars, counterVars,
                   current_time, connection_semaphore, rateVars,
                   last_connection_time, clientVars, active_sessions, envVars,
                   stats, dedupVars, sinkVars>>

\* a comment event, which the later instance handles as well once it is up
SnapshotComment(e) ==
    /\ events < MaxSnapshotEvents
    /\ HandleComment(e.username, e.commenter, e.comment)
    /\ restarted' =
           IF restarted.up
           THEN [restarted EXCEPT !.recent_comments =
                    AfterComment(@, e.username, NFC(e.commenter), NFC(e.comment), now)]
           ELSE restarted
    /\ UNCHANGED <<streamers, reporter, comment_history_file, teardown, running, now,
                   schedVars, counterVars, current_time, connection_semaphore,
                   rateVars, last_connection_time, clientVars, active_sessions,
                   envVars, pool>>

SnapshotNext ==
    \/ \E e \in pool : SnapshotComment(e)
    \/ Restart
    \/ Elapse

SnapshotSpec == SnapshotInit /\ [][SnapshotNext]_vars

(* ------------- comment events while the status reporter runs --------- *)
\* "hi" of two authors for target "a"
ReportPool == {Ev("a", A1, <<104, 105>>), Ev("a", A2, <<104, 105>>)}

\* a run for target "a" that starts with or without a history file; the file holds
\* entries for "a" and for a target "b" of an earlier run
ReportInit ==
    /\ \E history \in LeftHistories : Constructed(history)
    /\ streamers = {"a"}
    /\ pool = ReportPool

\* lines 556-578: a client that was started and not disconnected delivers a
\* comment event; its handler runs when the event loop is free
LiveComment(e) ==
    /\ Idle /\ e.username \in live
    /\ events < MaxReportEvents
    /\ HandleComment(e.username, e.commenter, e.comment)
    /\ UNCHANGED <<orchVars, now, pool>>

\* the clock of a run with the reporter goes on to the first report
ReportTick ==
    /\ now < Epoch + report_interval
    /\ Advance(TRUE)

\* the monitor loops connect and poll their sessions, the reporter reports, and
\* the clients deliver comment events
ReportNext ==
    \/ \E t \in streamers : MonitorStart(t)
    \/ \E t \in streamers : LoopTop(t)
    \/ \E t \in streamers : CooldownCheck(t)
    \/ \E t \in streamers : Acquire(t)
    \/ \E t \in streamers : GateCheck(t)
    \/ \E t \in streamers : WakeInterval(t)
    \/ \E t \in streamers : StartClient(t)
    \/ \E t \in streamers : StartReturns(t)
    \/ \E t \in streamers : OnConnect(t)
    \/ \E t \in streamers : Poll(t)
    \/ \E t \in streamers : WakeConnected(t)
    \/ \E t \in streamers : Cleanup(t)
    \/ \E t \in streamers : DisconnectDone(t)
    \/ \E e \in pool : LiveComment(e)
    \/ ReporterStart
    \/ ReporterWake
    \/ ReportTick

ReportSpec == ReportInit /\ [][ReportNext]_vars

(* ------------------- every writer of the statistics ------------------- *)
\* one target from the start of its run to the first report: its attempts
\* succeed, fail, time out or meet a rate limit, and its client signals and
\* delivers comment events
CounterInit ==
    /\ Boot
    /\ streamers = {"a"}
    /\ pool = {Ev("a", A1, <<104, 105>>)}

CounterNext ==
    \/ \E t \in streamers : MonitorStart(t)
    \/ \E t \in streamers : LoopTop(t)
    \/ \E t \in streamers : WakeBackoff(t)
    \/ \E t \in streamers : CooldownCheck(t)
    \/ \E t \in streamers : Acquire(t)
    \/ \E t \in streamers : GateCheck(t)
    \/ \E t \in streamers : WakeInterval(t)
    \/ \E t \in streamers : StartClient(t)
    \/ \E t \in streamers : StartReturns(t)
    \/ \E t \in streamers : StartRaises(t)
    \/ \E t \in streamers : StartTimeout(t)
    \/ \E t \in streamers : Poll(t)
    \/ \E t \in streamers : WakeConnected(t)
    \/ \E t \in streamers : Cleanup(t)
    \/ \E t \in streamers : DisconnectDone(t)
    \/ \E t \in streamers : OnConnect(t)
    \/ \E t \in streamers : OnDisconnect(t)
    \/ \E e \in pool : LiveComment(e)
    \/ ReporterStart
    \/ Tick

CounterSpec == CounterInit /\ [][CounterNext]_vars

(* ---------------------- properties of the deduplication --------------- *)
\* a comment event arrives in this step: last_event' is the event, last_event the
\* one before it
CommentStep == events' = events + 1

SameSource(e, f) == e.username = f.username /\ e.commenter = f.commenter
Identical(e, f) == SameSource(e, f) /\ e.comment = f.comment

\* the event of this step reaches the sink
ForwardedNow ==
    /\ sink' # sink
    /\ stats'.comments_captured = stats.comments_captured + 1
    /\ stats'.duplicates_filtered = stats.duplicates_filtered

\* the event of this step is dropped and counted once as filtered
SuppressedNow ==
    /\ sink' = sink
    /\ session_files' = session_files
    /\ stats'.comments_captured = stats.comments_captured
    /\ stats'.duplicates_filtered = stats.duplicates_filtered + 1

\* an identical event was forwarded less than 30 seconds before event e
RepeatsForwarded(e) ==
    \E f \in forwarded : Identical(e, f) /\ e.at - f.at < exact_window

NormalizedText(text) == NFC(Strip(Lower(text)))

\* C3: when a comment of an author was forwarded for a target, a later comment of the
\* same author for the same target with an equal lowercased, trimmed, normalised
\* text that arrives less than 10 seconds later is suppressed
C3_NearDuplicateSuppressed ==
    [][CommentStep =>
          ((\E f \in forwarded :
               /\ SameSource(last_event', f)
               /\ NormalizedText(last_event'.comment) = NormalizedText(f.comment)
               /\ last_event'.at - f.at < similar_window)
            => SuppressedNow)]_vars

\* a text that differs from the forwarded one in case only was dropped within 10 s,
\* and the forwarded one is the lowercase text, whose keys do not hold the exact
\* key of the later one
C3_NearDuplicateCaught ==
    /\ last_event \notin forwarded
    /\ stats.duplicates_filtered >= 1
    /\ \E f \in forwarded :
           /\ SameSource(last_event, f)
           /\ last_event.comment # f.comment
           /\ f.comment = NormalizedText(last_event.comment)
           /\ last_event.at - f.at < similar_window
    /\ \A f \in forwarded : ~Identical(last_event, f)

Text_Hi == <<72, 105, 33, 33>>
Text_hi == <<104, 105, 33, 33>>

\* C4: after "Hi!!" is forwarded at time 0 and "hi!!" of the same author is
\* suppressed within 10 seconds, a third event "hi!!" of the author at 11 seconds
\* is forwarded
C4_WindowExpires ==
    [][(/\ CommentStep
        /\ last_event'.comment = Text_hi
        /\ last_event.comment = Text_hi
        /\ SameSource(last_event', last_event)
        /\ last_event \notin forwarded
        /\ \E f \in forwarded : /\ SameSource(last_event, f)
                                /\ f.comment = Text_Hi
                                /\ last_event.at - f.at < similar_window
                                /\ last_event'.at - f.at = similar_window + 1)
       => ForwardedNow]_vars

\* the forwarded events of the author of e in the 5 seconds before e
RecentOf(e) ==
    {f \in forwarded : SameSource(e, f) /\ e.at - f.at < rapid_window}

\* C5: when an author posts four texts, pairwise distinct also after normalisation,
\* to one target within 5 seconds, the fourth is suppressed
C5_FourthSuppressed ==
    [][(/\ CommentStep
        /\ \E T \in SUBSET RecentOf(last_event') :
               /\ Cardinality(T) = rapid_count
               /\ \A f, g \in T \cup {last_event'} :
                      f # g => NormalizedText(f.comment) # NormalizedText(g.comment))
       => SuppressedNow]_vars

\* the ranges of pictographs and symbols, first and last code point of each
SymbolRanges ==
    { <<128512, 128591>>, <<127744, 128511>>, <<128640, 128767>>, <<127456, 127487>>,
      <<9986, 10160>>, <<9410, 127569>>, <<129280, 129535>>, <<129648, 129791>> }
IsSymbol(c) == \E r \in SymbolRanges : c >= r[1] /\ c <= r[2]
OnlySymbolsAndSpace(text) == \A i \in DOMAIN text : IsSymbol(text[i]) \/ IsSpace(text[i])

\* C6: a comment whose text holds only whitespace and characters of the pictograph
\* and symbol ranges is never forwarded, whatever the ledger holds, and adds exactly
\* one to duplicates_filtered
C6_EmojiOnlySuppressed ==
    [][(CommentStep /\ OnlySymbolsAndSpace(last_event'.comment)) => SuppressedNow]_vars

\* emoji-only comments came over an empty and over a filled ledger, and none of
\* them reached the sink
C6_EmojiDropped ==
    /\ events >= 2
    /\ OnlySymbolsAndSpace(last_event.comment)
    /\ \E i \in DOMAIN last_event.comment : IsSymbol(last_event.comment[i])
    /\ Ledger(last_event.username) # <<>>
    /\ stats.duplicates_filtered = events
    /\ sink[last_event.username] = <<>>

\* the event of this step is written as the last line of its target's file, and no
\* other file changes
AppendedNow ==
    LET u == last_event'.username
    IN  /\ Len(sink'[u]) > Len(sink[u])
        /\ sink'[u][Len(sink'[u])] =
               [kind |-> "comment", content |-> CleanContent(last_event'.comment)]
        /\ \A v \in DOMAIN sink : v # u => sink'[v] = sink[v]

C17_LedgerBounded ==
    \A u \in Streamers : Len(Ledger(u)) <= max_history

\* a forwarded event pushed the ledger of "a" over the cap, and the 500 most
\* recent entries were kept, the keys of the event among them
C17_Truncated ==
    /\ events >= 1
    /\ last_event \in forwarded
    /\ last_event.username = "a"
    /\ Len(Ledger("a")) = kept_history
    /\ HasKey(Ledger("a"), ExactHash(last_event.commenter, last_event.comment))

C16_BackoffMonotoneAndCapped ==
    [][\A t \in streamers :
          (pc[t] = "loop" /\ pc'[t] = "backoff") =>
              LET f == consecutive_failures[t]
                  slept == wake'[t] - now
                  term(n) == base_delay * Pow(backoff_multiplier, n)
              IN  /\ \E jitter \in JitterSamples : slept = ActualDelay(f, jitter)
                  /\ BackoffDelay(f) >= BackoffDelay(f - 1)
                  /\ term(f - 1) <= max_delay =>
                         \A jitter \in JitterSamples : slept >= ActualDelay(f - 1, jitter)
                  /\ term(f) > max_delay =>
                         /\ 10 * slept >= max_delay * jitter_range[1]
                         /\ 10 * slept <= max_delay * jitter_range[2]]_vars

\* the loop sleeps the longest delay: the capped term with the largest jitter
C16_CappedSleep ==
    /\ pc["a"] = "backoff"
    /\ base_delay * Pow(backoff_multiplier, consecutive_failures["a"]) > max_delay
    /\ 10 * (wake["a"] - current_time["a"]) = max_delay * jitter_range[2]

\* the later instance and the first one decide alike on the event e at this time
SameDecision(e) ==
    IsDuplicateComment(LedgerOf(restarted.recent_comments, e.username),
                       NFC(e.commenter), NFC(e.comment), now)
        = IsDuplicateComment(Ledger(e.username), NFC(e.commenter), NFC(e.comment), now)

\* C15: an instance that loaded the history file another instance wrote takes, on
\* every later comment event, the decision the writing instance takes with the
\* ledger it kept in memory
C15_SnapshotRoundTrip ==
    restarted.up => \A e \in pool : SameDecision(e)

\* the file was written without an entry of the ledger that was too old, both
\* instances have handled an event since, and both suppress a repeat now
C15_RestoredSuppresses ==
    /\ restarted.up
    /\ restarted.recent_comments # recent_comments
    /\ events >= 2
    /\ \E e \in pool :
           /\ e.username = "a"
           /\ ExactRepeat(LedgerOf(restarted.recent_comments, "a"),
                          NFC(e.commenter), NFC(e.comment), now)
           /\ ExactRepeat(Ledger("a"), NFC(e.commenter), NFC(e.comment), now)

\* the key-to-timestamp entries of the ledger of every target are those of before
EntriesUnchanged ==
    \A u \in Streamers :
        (IF u \in DOMAIN recent_comments' THEN recent_comments'[u] ELSE <<>>) = Ledger(u)

\* both keys of event e are in the ledger of its target with the time of e
KeysRecorded(e) ==
    /\ e.username \in DOMAIN recent_comments'
    /\ LET d == recent_comments'[e.username]
       IN  /\ HasKey(d, ExactHash(e.commenter, e.comment))
           /\ Lookup(d, ExactHash(e.commenter, e.comment)) = e.at
           /\ HasKey(d, SimilarityHash(e.commenter, e.comment))
           /\ Lookup(d, SimilarityHash(e.commenter, e.comment)) = e.at

C21_HandlersDoNotInterleave ==
    [][(CommentStep /\ ForwardedNow) =>
          LET e == last_event'
          IN  /\ sink'[e.username] =
                     Append(WithSessionFile(e.username),
                            [kind |-> "comment", content |-> CleanContent(e.comment)])
              /\ \A u \in Streamers \ {e.username} : sink'[u] = sink[u]
              /\ KeysRecorded(e)
              /\ \A f \in forwarded :
                     Identical(e, f) => e.at - f.at >= exact_window]_vars

\* two comments of a target are in its file and an identical event that came at
\* the same instant as the one forwarded last was dropped
C21_SecondSuppressed ==
    /\ Len(sink["a"]) >= 3
    /\ last_event \notin forwarded
    /\ stats.duplicates_filtered >= 1
    /\ \E f \in forwarded :
           /\ f.username = "a" /\ f.at = last_event.at
           /\ f.commenter = last_event.commenter /\ f.comment = last_event.comment
           /\ sink["a"][Len(sink["a"])].content = CleanContent(f.comment)

\* the status reporter has slept, found the flag set and begun its next sleep: the
\* step in which it saves the comment history
ReporterSaves ==
    /\ running
    /\ reporter.pc = "sleeping" /\ reporter'.pc = "sleeping"
    /\ reporter'.wake # reporter.wake

\* C30: the snapshot of the status reporter is taken in one step in which no
\* ledger changes: the file it leaves holds, for every target, exactly the entries
\* that the ledger of the target has at that moment and that are younger than 24
\* hours, and no step of a comment handler writes the file
C30_SnapshotConsistent ==
    [][/\ ReporterSaves =>
             /\ recent_comments' = recent_comments
             /\ now' = now
             /\ comment_history_file'.exists
             /\ \A u \in Streamers :
                    LedgerOf(LoadCommentHistory(comment_history_file'), u) =
                        SelectSeq(Ledger(u), LAMBDA e : e.ts > now - history_retention)
       /\ comment_history_file' # comment_history_file => ReporterSaves
       /\ CommentStep => comment_history_file' = comment_history_file]_vars

\* the reporter has saved the history after a comment of this run: the file holds
\* the key of the comment, and the target whose only entry was 25 hours old is gone
C30_SnapshotTaken ==
    /\ reporter.pc = "sleeping" /\ reporter.wake = now + report_interval
    /\ events >= 1 /\ last_event.at < now
    /\ "b" \in DOMAIN recent_comments
    /\ "b" \notin DOMAIN LoadCommentHistory(comment_history_file)
    /\ LET saved == LedgerOf(LoadCommentHistory(comment_history_file), "a")
           h == ExactHash(last_event.commenter, last_event.comment)
       IN  /\ saved = Ledger("a")
           /\ HasKey(saved, h) /\ Lookup(saved, h) = last_event.at

\* the identical events that were forwarded before the event e
ForwardedBefore(e) == {f \in forwarded : Identical(e, f)}

\* C34: in a stream of identical events the exact-repeat window runs from the
\* occurrence that was forwarded last: an occurrence that comes less than
\* exact_window seconds after it is suppressed and leaves every timestamp of the
\* ledger as it was; one that comes exact_window seconds or more after it is
\* forwarded again and recorded, so that two forwarded occurrences are never less
\* than exact_window seconds apart
C34_WindowFromLastForwarded ==
    [][CommentStep =>
          LET e == last_event'
          IN  ForwardedBefore(e) # {} =>
                  IF \E f \in ForwardedBefore(e) : e.at - f.at < exact_window
                  THEN SuppressedNow /\ EntriesUnchanged
                  ELSE ForwardedNow /\ KeysRecorded(e)]_vars

\* an occurrence was forwarded, two later ones were suppressed, and the occurrence
\* that came exactly exact_window seconds after the forwarded one is forwarded
C34_ForwardedAgain ==
    /\ events >= 4
    /\ stats.duplicates_filtered >= 2
    /\ last_event \in forwarded
    /\ \E f \in forwarded : Identical(last_event, f)
                            /\ last_event.at - f.at = exact_window
    /\ Len(sink["a"]) = 3

\* the counters of ScrapingStats that the claim names
Counters ==
    {"connection_attempts", "failed_connections", "rate_limit_hits",
     "comments_captured", "duplicates_filtered"}

\* C35: in every state rate_limit_hits <= failed_connections <=
\* connection_attempts, and no step makes connection_attempts, failed_connections,
\* rate_limit_hits, comments_captured or duplicates_filtered smaller
C35_CountersOrdered ==
    /\ [](/\ stats.rate_limit_hits <= stats.failed_connections
          /\ stats.failed_connections <= stats.connection_attempts)
    /\ [][\A c \in Counters : stats'[c] >= stats[c]]_vars

\* every counter has been written: an attempt failed with a rate-limit error,
\* another call was counted, a comment was forwarded and one was filtered
C35_EveryCounterMoved ==
    /\ stats.rate_limit_hits = 1
    /\ stats.failed_connections = 1
    /\ stats.connection_attempts = 2
    /\ stats.comments_captured >= 1
    /\ stats.duplicates_filtered >= 1

====
